---- MODULE Spec2Model ----
(***************************************************************************)
(* Model of rupost: the sequential test executor (runner/executor.rs) with *)
(* variable resolution, capture and assertion evaluation, and the          *)
(* lock-guarded history log (history/storage.rs).                          *)
(*                                                                         *)
(* Strings are sequences of one-character strings so that the regex based  *)
(* resolver and the assertion parser work on the characters they see.      *)
(***************************************************************************)
EXTENDS Integers, Sequences, FiniteSets, TLC

None == "None"

\* Option<T>: the empty tuple is None, a one-element tuple is Some(v)
NoneOpt == <<>>
Some(v) == <<v>>
IsSome(o) == Len(o) = 1
Unwrap(o) == o[1]

(* ------------------------------------------------------------------ *)
(* Characters and basic string helpers                                 *)
(* ------------------------------------------------------------------ *)
Lower == {"a","b","c","d","e","f","g","h","i","j","k","l","m",
          "n","o","p","q","r","s","t","u","v","w","x","y","z"}
Upper == {"A","B","C","D","E","F","G","H","I","J","K","L","M",
          "N","O","P","Q","R","S","T","U","V","W","X","Y","Z"}
Digit == {"0","1","2","3","4","5","6","7","8","9"}

Max(S) == CHOOSE x \in S : \A y \in S : y <= x
Min(S) == CHOOSE x \in S : \A y \in S : x <= y

\* str.trim(): strip leading and trailing whitespace
IsSpace(c) == c \in {" ", "\n", "\t"}
Trim(s) ==
    LET keep == {i \in 1..Len(s) : ~IsSpace(s[i])}
    IN  IF keep = {} THEN <<>> ELSE SubSeq(s, Min(keep), Max(keep))

\* does pattern p occur in s at index i (1-based)
OccursAt(s, p, i) ==
    /\ i >= 1
    /\ i + Len(p) - 1 <= Len(s)
    /\ \A k \in 1..Len(p) : s[i + k - 1] = p[k]

StartsWith(s, p) == OccursAt(s, p, 1)
EndsWith(s, p) == Len(p) <= Len(s) /\ OccursAt(s, p, Len(s) - Len(p) + 1)

\* str.find(p): index of the first occurrence, 0 when absent
Find(s, p) ==
    LET hits == {i \in 1..(Len(s) + 1) : OccursAt(s, p, i)}
    IN  IF hits = {} THEN 0 ELSE Min(hits)

Contains(s, p) == Find(s, p) # 0

\* str.split(c)
RECURSIVE Split(_, _)
Split(s, c) ==
    LET at == Find(s, <<c>>)
    IN  IF at = 0 THEN <<s>>
        ELSE <<SubSeq(s, 1, at - 1)>> \o Split(SubSeq(s, at + 1, Len(s)), c)

\* u64 / integer to_string
RECURSIVE NatToStr(_)
NatToStr(n) ==
    LET d == CHOOSE c \in Digit :
                 c = <<"0","1","2","3","4","5","6","7","8","9">>[(n % 10) + 1]
    IN  IF n < 10 THEN <<d>> ELSE NatToStr(n \div 10) \o <<d>>

IntToStr(n) == IF n < 0 THEN <<"-">> \o NatToStr(0 - n) ELSE NatToStr(n)

DigitVal(c) == CHOOSE v \in 0..9 : <<"0","1","2","3","4","5","6","7","8","9">>[v + 1] = c

RECURSIVE StrToNat(_)
StrToNat(s) ==
    IF Len(s) = 1 THEN DigitVal(s[1])
    ELSE 10 * StrToNat(SubSeq(s, 1, Len(s) - 1)) + DigitVal(s[Len(s)])

IsDigits(s) == Len(s) > 0 /\ \A i \in 1..Len(s) : s[i] \in Digit

(* ------------------------------------------------------------------ *)
(* VariableContext and VariableResolver                                *)
(* ------------------------------------------------------------------ *)
\* VariableContext: a map from names to values, both strings
CtxGet(ctx, name) == IF name \in DOMAIN ctx THEN Some(ctx[name]) ELSE NoneOpt

\* an extend that keeps the value of a key already present
CtxExtend_KeepOld(ctx, vars) ==
    [k \in (DOMAIN ctx) \cup (DOMAIN vars) |->
        IF k \in DOMAIN ctx THEN ctx[k] ELSE vars[k]]

\* HashMap::extend: insert or overwrite every pair of vars
CtxExtend(ctx, vars) ==
    [k \in (DOMAIN ctx) \cup (DOMAIN vars) |->
        IF k \in DOMAIN vars THEN vars[k] ELSE ctx[k]]

VarNameStart(c) == c \in Lower \cup Upper \cup {"_"}
VarNameChar(c) == c \in Lower \cup Upper \cup Digit \cup {"_"}
EnvNameStart(c) == c \in Upper \cup {"_"}
EnvNameChar(c) == c \in Upper \cup Digit \cup {"_"}

\* last index of the run of name characters that starts at j (j - 1 if none)
RunEnd(text, j, IsChar(_)) ==
    LET ends == {k \in j..Len(text) : \A m \in j..k : IsChar(text[m])}
    IN  IF ends = {} THEN j - 1 ELSE Max(ends)

\* VAR_REGEX \{\{([a-zA-Z_][a-zA-Z0-9_]*)\}\} anchored at i: index of the
\* last character of the match, 0 when the regex does not match at i
VarMatchEnd(text, i) ==
    IF /\ OccursAt(text, <<"{", "{">>, i)
       /\ i + 2 <= Len(text)
       /\ VarNameStart(text[i + 2])
    THEN LET e == RunEnd(text, i + 2, VarNameChar)
         IN  IF OccursAt(text, <<"}", "}">>, e + 1) THEN e + 2 ELSE 0
    ELSE 0

\* ENV_REGEX \$\{([A-Z_][A-Z0-9_]*)\} anchored at i
EnvMatchEnd(text, i) ==
    IF /\ OccursAt(text, <<"$", "{">>, i)
       /\ i + 2 <= Len(text)
       /\ EnvNameStart(text[i + 2])
    THEN LET e == RunEnd(text, i + 2, EnvNameChar)
         IN  IF OccursAt(text, <<"}">>, e + 1) THEN e + 1 ELSE 0
    ELSE 0

\* Regex::replace_all with the {{name}} pattern, scanning from index i:
\* leftmost non-overlapping matches, replacement text is not rescanned
RECURSIVE substituteFrom(_, _, _)
substituteFrom(text, i, ctx) ==
    IF i > Len(text) THEN <<>>
    ELSE LET e == VarMatchEnd(text, i)
         IN  IF e = 0 THEN <<text[i]>> \o substituteFrom(text, i + 1, ctx)
             ELSE LET name == SubSeq(text, i + 2, e - 2)
                      v == CtxGet(ctx, name)
                  IN  (IF IsSome(v) THEN Unwrap(v) ELSE SubSeq(text, i, e))
                      \o substituteFrom(text, e + 1, ctx)

substitute(text, ctx) == substituteFrom(text, 1, ctx)

RECURSIVE resolveEnvFrom(_, _, _)
resolveEnvFrom(text, i, env) ==
    IF i > Len(text) THEN <<>>
    ELSE LET e == EnvMatchEnd(text, i)
         IN  IF e = 0 THEN <<text[i]>> \o resolveEnvFrom(text, i + 1, env)
             ELSE LET name == SubSeq(text, i + 2, e - 1)
                      v == CtxGet(env, name)
                  IN  (IF IsSome(v) THEN Unwrap(v) ELSE SubSeq(text, i, e))
                      \o resolveEnvFrom(text, e + 1, env)

resolve_env_vars(text, env) == resolveEnvFrom(text, 1, env)

\* resolve with the phases swapped: session variables first
resolve_StoreFirst(text, env, ctx) == resolve_env_vars(substitute(text, ctx), env)

\* resolve that also trims the text
resolve_Trimmed(text, env, ctx) == Trim(substitute(resolve_env_vars(text, env), ctx))

\* VariableResolver::resolve: environment first, then session variables
resolve(text, env, ctx) == substitute(resolve_env_vars(text, env), ctx)

(* ------------------------------------------------------------------ *)
(* HTTP response as the transport collaborator returns it              *)
(* ------------------------------------------------------------------ *)
\* A response is [status, headers, body, duration].  headers maps lower-case
\* header names to values (HeaderMap lookups ignore case); body is the JSON
\* document the body text parses to, or InvalidJson when it is not JSON;
\* duration is in milliseconds.
InvalidJson == [j |-> "Invalid"]
JNull == [j |-> "Null"]
JString(s) == [j |-> "String", s |-> s]
JNumber(n) == [j |-> "Number", n |-> n]
JBool(b) == [j |-> "Bool", b |-> b]
JObject(o) == [j |-> "Object", o |-> o]
JArray == [j |-> "Array"]
JMissing == [j |-> "Missing"]

LowerSeq == <<"a","b","c","d","e","f","g","h","i","j","k","l","m",
              "n","o","p","q","r","s","t","u","v","w","x","y","z">>
UpperSeq == <<"A","B","C","D","E","F","G","H","I","J","K","L","M",
              "N","O","P","Q","R","S","T","U","V","W","X","Y","Z">>
ToLowerChar(c) ==
    IF c \in Upper THEN LowerSeq[CHOOSE i \in 1..26 : UpperSeq[i] = c] ELSE c
ToLower(s) == [i \in 1..Len(s) |-> ToLowerChar(s[i])]

\* HeaderMap::get(name)
HeaderGet(headers, name) ==
    IF ToLower(name) \in DOMAIN headers THEN Some(headers[ToLower(name)]) ELSE NoneOpt

\* Status::is_success
is_success(code) == code >= 200 /\ code <= 299

(* ------------------------------------------------------------------ *)
(* Assertion engine: types, parser, extractor, evaluator               *)
(* ------------------------------------------------------------------ *)
Number(n) == [t |-> "Number", n |-> n]
String(s) == [t |-> "String", s |-> s]
Bool(b) == [t |-> "Bool", b |-> b]
Null == [t |-> "Null"]

Ok(v) == [ok |-> TRUE, v |-> v]
Err(e) == [ok |-> FALSE, e |-> e]

S_status == <<"s","t","a","t","u","s">>
S_response_time == <<"r","e","s","p","o","n","s","e",".","t","i","m","e">>
S_headers_dot == <<"h","e","a","d","e","r","s",".">>
S_body_dot == <<"b","o","d","y",".">>
S_header_dot == <<"h","e","a","d","e","r",".">>
S_exists == <<"e","x","i","s","t","s">>
S_contains == <<"c","o","n","t","a","i","n","s">>
S_null == <<"n","u","l","l">>
S_true == <<"t","r","u","e">>
S_false == <<"f","a","l","s","e">>
S_not_found == <<"n","o","t"," ","f","o","u","n","d">>

\* the operator list of parse_assertion, in its priority order
operators == << <<">", "=">>, <<"<", "=">>, <<"=", "=">>, <<"!", "=">>,
                <<">">>, <<"<">>, S_contains >>

RECURSIVE Join(_, _)
Join(segs, sep) ==
    IF Len(segs) = 0 THEN <<>>
    ELSE IF Len(segs) = 1 THEN segs[1]
    ELSE segs[1] \o sep \o Join(Tail(segs), sep)

\* parse_value_path
parse_value_path(raw) ==
    LET input == Trim(raw)
    IN  IF input = S_status THEN Ok([p |-> "Status"])
        ELSE IF input = S_response_time THEN Ok([p |-> "ResponseTime"])
        ELSE IF StartsWith(input, S_headers_dot)
             THEN Ok([p |-> "Header", name |-> SubSeq(input, 9, Len(input))])
        ELSE IF StartsWith(input, S_body_dot)
             THEN Ok([p |-> "Body", segments |-> Split(SubSeq(input, 6, Len(input)), ".")])
        ELSE Err("InvalidSyntax")

\* str::parse::<f64>, for the integer literals the model uses
IsNumberText(s) ==
    \/ IsDigits(s)
    \/ Len(s) > 1 /\ s[1] \in {"-", "+"} /\ IsDigits(Tail(s))
ParseNumber(s) ==
    IF s[1] = "-" THEN 0 - StrToNat(Tail(s))
    ELSE IF s[1] = "+" THEN StrToNat(Tail(s))
    ELSE StrToNat(s)

\* parse_assert_value; slicing input[1..len-1] of a lone quote character
\* panics (slice start 1 > end 0)
parse_assert_value(raw) ==
    LET input == Trim(raw)
        quoted(q) == StartsWith(input, <<q>>) /\ EndsWith(input, <<q>>)
    IN  IF input = S_null THEN Ok(Null)
        ELSE IF input = S_true THEN Ok(Bool(TRUE))
        ELSE IF input = S_false THEN Ok(Bool(FALSE))
        ELSE IF quoted("\"") \/ quoted("'")
             THEN IF Len(input) < 2 THEN Err("Panic")
                  ELSE Ok(String(SubSeq(input, 2, Len(input) - 1)))
        ELSE IF IsNumberText(input) THEN Ok(Number(ParseNumber(input)))
        ELSE Ok(String(input))

\* the first operator of the list that occurs anywhere in the input
FoundOp(input) ==
    LET idx == {k \in 1..Len(operators) : Contains(input, operators[k])}
    IN  IF idx = {} THEN 0 ELSE Min(idx)

\* parse_assertion
parse_assertion(raw) ==
    LET input == Trim(raw)
    IN  IF EndsWith(input, S_exists)
        THEN LET path == parse_value_path(SubSeq(input, 1, Len(input) - 6))
             IN  IF path.ok THEN Ok([kind |-> "Exists", path |-> path.v]) ELSE path
        ELSE LET k == FoundOp(input)
             IN  IF k = 0 THEN Err("InvalidSyntax")
                 ELSE LET op_str == operators[k]
                          op_pos == Find(input, op_str)
                          left_str == Trim(SubSeq(input, 1, op_pos - 1))
                          right_str == Trim(SubSeq(input, op_pos + Len(op_str), Len(input)))
                      IN  IF left_str = <<>> THEN Err("InvalidSyntax")
                          ELSE IF right_str = <<>> THEN Err("InvalidSyntax")
                          ELSE LET left == parse_value_path(left_str)
                                   right == parse_assert_value(right_str)
                               IN  IF ~left.ok THEN left
                                   ELSE IF ~right.ok THEN right
                                   ELSE Ok([kind |-> "Compare", left |-> left.v,
                                            op |-> op_str, right |-> right.v])

\* json_value_to_assert_value
json_value_to_assert_value(value) ==
    CASE value.j = "Number" -> Ok(Number(value.n))
      [] value.j = "String" -> Ok(String(value.s))
      [] value.j = "Bool" -> Ok(Bool(value.b))
      [] value.j = "Null" -> Ok(Null)
      [] OTHER -> Err("ExtractionError")

\* serde_json Value::get(key) along the segments; None when a segment is
\* missing or the current value is not an object
RECURSIVE JsonWalk(_, _)
JsonWalk(value, segments) ==
    IF Len(segments) = 0 THEN value
    ELSE IF value.j = "Object" /\ segments[1] \in DOMAIN value.o
         THEN JsonWalk(value.o[segments[1]], Tail(segments))
         ELSE JMissing

\* extract_from_json_body
extract_from_json_body(body, segments) ==
    IF body = InvalidJson THEN Err("JsonError")
    ELSE LET current == JsonWalk(body, segments)
         IN  IF current = JMissing THEN Err("PathNotFound")
             ELSE json_value_to_assert_value(current)

\* extract_value
extract_value(response, path) ==
    CASE path.p = "Status" -> Ok(Number(response.status))
      [] path.p = "Header" ->
            LET value == HeaderGet(response.headers, path.name)
            IN  IF IsSome(value) THEN Ok(String(Unwrap(value))) ELSE Err("PathNotFound")
      [] path.p = "Body" -> extract_from_json_body(response.body, path.segments)
      [] path.p = "ResponseTime" -> Ok(Number(response.duration))

OpEqual == <<"=", "=">>
OpNotEqual == <<"!", "=">>
OpGreater == <<">">>
OpLess == <<"<">>
OpGreaterOrEqual == <<">", "=">>
OpLessOrEqual == <<"<", "=">>
OpContains == S_contains

\* a compare without the arm for Null against another type
compare_NoNullArm(a, op, b) ==
    CASE a.t = "Number" /\ b.t = "Number" ->
            CASE op = OpEqual -> Ok(a.n = b.n)
              [] op = OpNotEqual -> Ok(a.n # b.n)
              [] op = OpGreater -> Ok(a.n > b.n)
              [] op = OpLess -> Ok(a.n < b.n)
              [] op = OpGreaterOrEqual -> Ok(a.n >= b.n)
              [] op = OpLessOrEqual -> Ok(a.n <= b.n)
              [] OTHER -> Err("TypeMismatch")
      [] a.t = "String" /\ b.t = "String" ->
            CASE op = OpEqual -> Ok(a.s = b.s)
              [] op = OpNotEqual -> Ok(a.s # b.s)
              [] op = OpContains -> Ok(Contains(a.s, b.s))
              [] OTHER -> Err("TypeMismatch")
      [] a.t = "Bool" /\ b.t = "Bool" ->
            CASE op = OpEqual -> Ok(a.b = b.b)
              [] op = OpNotEqual -> Ok(a.b # b.b)
              [] OTHER -> Err("InvalidOperator")
      [] a.t = "Null" /\ b.t = "Null" ->
            CASE op = OpEqual -> Ok(TRUE)
              [] op = OpNotEqual -> Ok(FALSE)
              [] OTHER -> Err("InvalidOperator")
      [] OTHER -> Err("TypeMismatch")

\* AssertValue::compare
compare(a, op, b) ==
    CASE a.t = "Number" /\ b.t = "Number" ->
            CASE op = OpEqual -> Ok(a.n = b.n)
              [] op = OpNotEqual -> Ok(a.n # b.n)
              [] op = OpGreater -> Ok(a.n > b.n)
              [] op = OpLess -> Ok(a.n < b.n)
              [] op = OpGreaterOrEqual -> Ok(a.n >= b.n)
              [] op = OpLessOrEqual -> Ok(a.n <= b.n)
              [] OTHER -> Err("TypeMismatch")
      [] a.t = "String" /\ b.t = "String" ->
            CASE op = OpEqual -> Ok(a.s = b.s)
              [] op = OpNotEqual -> Ok(a.s # b.s)
              [] op = OpContains -> Ok(Contains(a.s, b.s))
              [] OTHER -> Err("TypeMismatch")
      [] a.t = "Bool" /\ b.t = "Bool" ->
            CASE op = OpEqual -> Ok(a.b = b.b)
              [] op = OpNotEqual -> Ok(a.b # b.b)
              [] OTHER -> Err("InvalidOperator")
      [] a.t = "Null" /\ b.t = "Null" ->
            CASE op = OpEqual -> Ok(TRUE)
              [] op = OpNotEqual -> Ok(FALSE)
              [] OTHER -> Err("InvalidOperator")
      [] (a.t = "Null") # (b.t = "Null") ->
            CASE op = OpEqual -> Ok(FALSE)
              [] op = OpNotEqual -> Ok(TRUE)
              [] OTHER -> Err("InvalidOperator")
      [] OTHER -> Err("TypeMismatch")

\* Display for AssertValue
AssertValueToStr(v) ==
    CASE v.t = "Number" -> IntToStr(v.n)
      [] v.t = "String" -> <<"\"">> \o v.s \o <<"\"">>
      [] v.t = "Bool" -> IF v.b THEN S_true ELSE S_false
      [] v.t = "Null" -> S_null

\* Display for ValuePath
ValuePathToStr(path) ==
    CASE path.p = "Status" -> S_status
      [] path.p = "Header" -> S_headers_dot \o path.name
      [] path.p = "Body" -> S_body_dot \o Join(path.segments, <<".">>)
      [] path.p = "ResponseTime" -> S_response_time

\* format_assertion
format_assertion(assertion) ==
    IF assertion.kind = "Compare"
    THEN ValuePathToStr(assertion.left) \o <<" ">> \o assertion.op \o <<" ">>
         \o AssertValueToStr(assertion.right)
    ELSE ValuePathToStr(assertion.path) \o <<" ">> \o S_exists

\* AssertionResult::success / failure / error
AssertionSuccess(raw, actual, expected) ==
    [raw |-> raw, passed |-> TRUE, actual |-> Some(actual), expected |-> expected,
     message |-> None]
AssertionFailure(raw, actual, expected, message) ==
    [raw |-> raw, passed |-> FALSE, actual |-> Some(actual), expected |-> expected,
     message |-> message]
AssertionError(raw, error) ==
    [raw |-> raw, passed |-> FALSE, actual |-> NoneOpt, expected |-> <<>>,
     message |-> error]

\* evaluate_assertion
evaluate_assertion(assertion, response) ==
    LET raw == format_assertion(assertion)
    IN  IF assertion.kind = "Compare"
        THEN LET actual_value == extract_value(response, assertion.left)
             IN  IF ~actual_value.ok THEN AssertionError(raw, actual_value.e)
                 ELSE LET r == compare(actual_value.v, assertion.op, assertion.right)
                          actual_str == AssertValueToStr(actual_value.v)
                          expected_str == assertion.op \o <<" ">>
                                          \o AssertValueToStr(assertion.right)
                      IN  IF ~r.ok THEN AssertionError(raw, r.e)
                          ELSE IF r.v THEN AssertionSuccess(raw, actual_str, expected_str)
                          ELSE AssertionFailure(raw, actual_str, expected_str, "Expected")
        ELSE LET value == extract_value(response, assertion.path)
             IN  IF value.ok
                 THEN AssertionSuccess(raw, AssertValueToStr(value.v), S_exists)
                 ELSE AssertionFailure(raw, S_not_found, S_exists, "ExpectedToExist")

(* ------------------------------------------------------------------ *)
(* Variable capture (variable/capture.rs)                              *)
(* ------------------------------------------------------------------ *)
CaptureBody(name, path) == [name |-> name, source |-> "Body", arg |-> path]
CaptureHeader(name, header) == [name |-> name, source |-> "Header", arg |-> header]

\* VariableCapture::parse
VariableCapture_parse(var_name, source_str) ==
    IF StartsWith(source_str, S_body_dot)
    THEN CaptureBody(var_name, SubSeq(source_str, 6, Len(source_str)))
    ELSE IF StartsWith(source_str, S_header_dot)
    THEN CaptureHeader(var_name, SubSeq(source_str, 8, Len(source_str)))
    ELSE CaptureBody(var_name, source_str)

\* serde_json Value::to_string for the values of the model: scalars, the
\* empty array, and objects written key by key
RECURSIVE JsonToStr(_)
JsonToStr(value) ==
    CASE value.j = "String" -> <<"\"">> \o value.s \o <<"\"">>
      [] value.j = "Number" -> IntToStr(value.n)
      [] value.j = "Bool" -> IF value.b THEN S_true ELSE S_false
      [] value.j = "Null" -> S_null
      [] value.j = "Array" -> <<"[", "]">>
      [] value.j = "Object" ->
            IF DOMAIN value.o = {} THEN <<"{", "}">>
            ELSE LET k == CHOOSE x \in DOMAIN value.o : TRUE
                     rest == [x \in (DOMAIN value.o) \ {k} |-> value.o[x]]
                     head == <<"\"">> \o k \o <<"\"", ":">> \o JsonToStr(value.o[k])
                 IN  IF DOMAIN rest = {} THEN <<"{">> \o head \o <<"}">>
                     ELSE <<"{">> \o head \o <<",">> \o Tail(JsonToStr(JObject(rest)))

\* extract_from_json_path: walk the dotted path through objects only
RECURSIVE JsonPathWalk(_, _)
JsonPathWalk(current, parts) ==
    IF Len(parts) = 0 THEN Ok(current)
    ELSE IF current.j = "Object"
         THEN IF parts[1] \in DOMAIN current.o
              THEN JsonPathWalk(current.o[parts[1]], Tail(parts))
              ELSE Err("KeyNotFound")
         ELSE Err("NonObject")

extract_from_json_path(json, path) ==
    LET found == JsonPathWalk(json, Split(path, "."))
    IN  IF ~found.ok THEN found
        ELSE CASE found.v.j = "String" -> Ok(found.v.s)
               [] found.v.j = "Number" -> Ok(IntToStr(found.v.n))
               [] found.v.j = "Bool" -> Ok(IF found.v.b THEN S_true ELSE S_false)
               [] found.v.j = "Null" -> Ok(S_null)
               [] OTHER -> Ok(JsonToStr(found.v))

\* the value one capture directive yields
CaptureValue(response_body, response_headers, capture) ==
    CASE capture.source = "Body" ->
            IF response_body = InvalidJson THEN Err("NotJson")
            ELSE extract_from_json_path(response_body, capture.arg)
      [] capture.source = "Header" ->
            LET v == HeaderGet(response_headers, capture.arg)
            IN  IF IsSome(v) THEN Ok(Unwrap(v)) ELSE Err("HeaderNotFound")
      [] OTHER -> Err("Unsupported")

\* the for loop of capture_from_response: the first failing directive
\* returns the error, dropping the pairs collected so far
RECURSIVE CaptureLoop(_, _, _, _)
CaptureLoop(response_body, response_headers, captures, vars) ==
    IF Len(captures) = 0 THEN Ok(vars)
    ELSE LET value == CaptureValue(response_body, response_headers, captures[1])
         IN  IF ~value.ok THEN value
             ELSE CaptureLoop(response_body, response_headers, Tail(captures),
                              CtxExtend(vars, captures[1].name :> value.v))

\* a capture that returns the pairs of the directives that succeed
capture_from_response_Partial(response_body, response_headers, captures) ==
    LET good == {i \in 1..Len(captures) :
                    CaptureValue(response_body, response_headers, captures[i]).ok}
    IN  Ok([name \in {captures[i].name : i \in good} |->
              CaptureValue(response_body, response_headers,
                           captures[CHOOSE i \in good : captures[i].name = name]).v])

\* capture_from_response
capture_from_response(response_body, response_headers, captures) ==
    CaptureLoop(response_body, response_headers, captures, <<>>)

(* ------------------------------------------------------------------ *)
(* Building the transport request (http/types.rs, http/request.rs,     *)
(* parser/converter.rs)                                                *)
(* ------------------------------------------------------------------ *)
S_scheme_sep == <<":", "/", "/">>
S_http == <<"h","t","t","p">>
S_localhost == <<"l","o","c","a","l","h","o","s","t">>
S_content_type == <<"c","o","n","t","e","n","t","-","t","y","p","e">>
S_application_json == <<"a","p","p","l","i","c","a","t","i","o","n","/","j","s","o","n">>
S_form_urlencoded == <<"a","p","p","l","i","c","a","t","i","o","n","/","x","-","w","w","w","-",
                       "f","o","r","m","-","u","r","l","e","n","c","o","d","e","d">>

\* ParsedRequest::method_or_default
method_or_default(parsed) == IF IsSome(parsed.method) THEN Unwrap(parsed.method) ELSE "GET"

\* the text Url::parse hands to url::Url::parse
UrlNormalize(s) ==
    LET input == Trim(s)
        pos == Find(input, S_scheme_sep)
    IN  IF StartsWith(input, <<":">>)
        THEN S_http \o S_scheme_sep \o S_localhost \o input
        ELSE IF pos = 0 THEN S_http \o S_scheme_sep \o input
        ELSE IF StartsWith(SubSeq(input, pos + 3, Len(input)), <<":">>)
             THEN SubSeq(input, 1, pos - 1) \o S_scheme_sep \o S_localhost
                  \o SubSeq(input, pos + 3, Len(input))
        ELSE input

\* characters the url crate rejects in a host name
InvalidHostChar(c) ==
    c \in {" ", "\t", "\n", "\r", "#", "%", "/", ":", "<", ">", "?", "@", "[", "\\", "]", "^", "|"}

\* url::Url::parse on a normalized scheme://authority... text: the host must
\* be non-empty and free of invalid characters, the port a number below 65536
UrlTextValid(text) ==
    LET pos == Find(text, S_scheme_sep)
        rest == SubSeq(text, pos + 3, Len(text))
        stops == {i \in 1..Len(rest) : rest[i] \in {"/", "?", "#"}}
        authority == IF stops = {} THEN rest ELSE SubSeq(rest, 1, Min(stops) - 1)
        colons == {i \in 1..Len(authority) : authority[i] = ":"}
        host == IF colons = {} THEN authority ELSE SubSeq(authority, 1, Max(colons) - 1)
        port == IF colons = {} THEN <<>>
                ELSE SubSeq(authority, Max(colons) + 1, Len(authority))
    IN  /\ pos > 1
        /\ host # <<>>
        /\ \A i \in 1..Len(host) : ~InvalidHostChar(host[i])
        /\ port = <<>> \/ (IsDigits(port) /\ Len(port) <= 5 /\ StrToNat(port) < 65536)

\* Url::parse
Url_parse(s) == IF UrlTextValid(UrlNormalize(s)) THEN Ok(UrlNormalize(s)) ELSE Err("UrlParseError")

\* HeaderName::from_str / HeaderValue::from_str accept these (the backquote,
\* also a token character, is left out of the model's alphabet)
TokenChar(c) ==
    c \in Lower \cup Upper \cup Digit
          \cup {"!", "#", "$", "%", "&", "'", "*", "+", "-", ".", "^", "_", "|", "~"}
HeaderNameValid(name) == name # <<>> /\ \A i \in 1..Len(name) : TokenChar(name[i])
HeaderValueValid(value) == \A i \in 1..Len(value) : value[i] \notin {"\n", "\r"}

\* Request::insert_header: `expect` panics on a name or value that does not parse
insert_header(headers, key, value) ==
    IF HeaderNameValid(key) /\ HeaderValueValid(value)
    THEN Ok(CtxExtend(headers, ToLower(key) :> value))
    ELSE Err("Panic")

\* serde_json::from_str for the JSON texts of the model: the scalars, [] and
\* flat objects {"k":v,...} written without whitespace or escapes
JsonScalar(text) ==
    IF text = S_null THEN JNull
    ELSE IF text = S_true THEN JBool(TRUE)
    ELSE IF text = S_false THEN JBool(FALSE)
    ELSE IF Len(text) >= 2 /\ text[1] = "\"" /\ text[Len(text)] = "\""
            /\ ~Contains(SubSeq(text, 2, Len(text) - 1), <<"\"">>)
         THEN JString(SubSeq(text, 2, Len(text) - 1))
    ELSE IF IsDigits(text) THEN JNumber(StrToNat(text))
    ELSE IF Len(text) > 1 /\ text[1] = "-" /\ IsDigits(Tail(text))
         THEN JNumber(0 - StrToNat(Tail(text)))
    ELSE InvalidJson

JsonMember(text) ==
    LET at == Find(text, <<":">>)
        key == JsonScalar(SubSeq(text, 1, at - 1))
        val == JsonScalar(SubSeq(text, at + 1, Len(text)))
    IN  IF at = 0 \/ key.j # "String" \/ val = InvalidJson THEN InvalidJson
        ELSE JObject(key.s :> val)

RECURSIVE JsonMembers(_, _)
JsonMembers(members, acc) ==
    IF Len(members) = 0 THEN JObject(acc)
    ELSE LET m == JsonMember(members[1])
         IN  IF m = InvalidJson THEN InvalidJson
             ELSE JsonMembers(Tail(members), CtxExtend(acc, m.o))

json_from_str(raw) ==
    LET text == Trim(raw)
    IN  IF text = <<"{", "}">> THEN JObject(<<>>)
        ELSE IF text = <<"[", "]">> THEN JArray
        ELSE IF Len(text) >= 2 /\ text[1] = "{" /\ text[Len(text)] = "}"
             THEN JsonMembers(Split(SubSeq(text, 2, Len(text) - 1), ","), <<>>)
        ELSE JsonScalar(text)

\* is_json_like
is_json_like(s) ==
    LET trimmed == Trim(s)
    IN  \/ StartsWith(trimmed, <<"{">>) /\ EndsWith(trimmed, <<"}">>)
        \/ StartsWith(trimmed, <<"[">>) /\ EndsWith(trimmed, <<"]">>)

\* the first Content-Type header of the spec, if any
FindContentType(headers) ==
    LET hits == {i \in 1..Len(headers) : ToLower(headers[i][1]) = S_content_type}
    IN  IF hits = {} THEN NoneOpt ELSE Some(headers[Min(hits)][2])

\* Request::with_json: serialize, set Content-Type, set the body
with_json(request, json) ==
    [request EXCEPT !.headers = CtxExtend(@, S_content_type :> S_application_json),
                    !.body = Some(JsonToStr(json))]

\* Request::with_text
with_text(request, text) == [request EXCEPT !.body = Some(text)]

\* add_body
add_body(request, body, headers) ==
    LET content_type == FindContentType(headers)
        json == json_from_str(body)
    IN  IF IsSome(content_type) /\ Contains(Unwrap(content_type), S_application_json)
        THEN IF json = InvalidJson THEN Err("JsonError") ELSE Ok(with_json(request, json))
        ELSE IF IsSome(content_type) /\ Contains(Unwrap(content_type), S_form_urlencoded)
        THEN Ok(with_text(request, body))
        ELSE IF is_json_like(body) /\ json # InvalidJson
        THEN Ok(with_json(request, json))
        ELSE Ok(with_text(request, body))

\* the header loop of try_from
RECURSIVE AddHeaders(_, _)
AddHeaders(acc, headers) ==
    IF Len(headers) = 0 THEN Ok(acc)
    ELSE LET r == insert_header(acc, headers[1][1], headers[1][2])
         IN  IF ~r.ok THEN r ELSE AddHeaders(r.v, Tail(headers))

\* TryFrom<ParsedRequest> for Request: Ok(request), Err(error) or Err("Panic")
try_from(parsed) ==
    LET url == Url_parse(parsed.url)
        hdrs == AddHeaders(<<>>, parsed.headers)
    IN  IF ~url.ok THEN url
        ELSE IF ~hdrs.ok THEN hdrs
        ELSE LET request == [method |-> method_or_default(parsed), url |-> url.v,
                             headers |-> hdrs.v, body |-> NoneOpt]
             IN  IF IsSome(parsed.body)
                 THEN add_body(request, Unwrap(parsed.body), parsed.headers)
                 ELSE Ok(request)

(* ------------------------------------------------------------------ *)
(* HttpFileParser (parser/http_file.rs); a document is the sequence of  *)
(* its lines, as content.lines() yields them                           *)
(* ------------------------------------------------------------------ *)
ToUpperChar(c) ==
    IF c \in Lower THEN UpperSeq[CHOOSE i \in 1..26 : LowerSeq[i] = c] ELSE c
ToUpper(s) == [i \in 1..Len(s) |-> ToUpperChar(s[i])]

\* str.split_whitespace()
RECURSIVE split_whitespace(_)
split_whitespace(s) ==
    LET t == Trim(s)
        sp == {i \in 1..Len(t) : IsSpace(t[i])}
    IN  IF t = <<>> THEN <<>>
        ELSE IF sp = {} THEN <<t>>
        ELSE <<SubSeq(t, 1, Min(sp) - 1)>> \o split_whitespace(SubSeq(t, Min(sp) + 1, Len(t)))

\* lines.join("\n")
RECURSIVE JoinLines(_)
JoinLines(lines) ==
    IF Len(lines) = 0 THEN <<>>
    ELSE IF Len(lines) = 1 THEN lines[1]
    ELSE lines[1] \o <<"\n">> \o JoinLines(Tail(lines))

is_comment(line) == StartsWith(line, <<"#">>) \/ StartsWith(line, <<"/", "/">>)

is_metadata(line) == StartsWith(line, <<"@">>)

\* line.trim().starts_with("###")
IsSeparator(line) == StartsWith(Trim(line), <<"#", "#", "#">>)

\* current_block.trim().is_empty()
BlockIsBlank(block) == \A i \in 1..Len(block) : Trim(block[i]) = <<>>

\* the loop of split_by_separator over the lines from index i on
RECURSIVE SplitFrom(_, _, _, _, _)
SplitFrom(content, i, current_block, block_start_line, blocks) ==
    LET pushed == IF BlockIsBlank(current_block) THEN blocks
                  ELSE Append(blocks, [block |-> current_block,
                                       start_line |-> block_start_line])
    IN  IF i > Len(content) THEN pushed
        ELSE IF IsSeparator(content[i])
        THEN SplitFrom(content, i + 1, <<>>, i + 1, pushed)
        ELSE SplitFrom(content, i + 1, Append(current_block, content[i]),
                       block_start_line, blocks)

\* a splitter that forgets the block after the last separator
split_by_separator_NoLastBlock(content) ==
    LET blocks == SplitFrom(content, 1, <<>>, 1, <<>>)
        seps == {i \in 1..Len(content) : IsSeparator(content[i])}
        open == seps # {} /\ ~BlockIsBlank(SubSeq(content, Max(seps) + 1, Len(content)))
        kept == IF open THEN SubSeq(blocks, 1, Len(blocks) - 1) ELSE blocks
    IN  IF kept = <<>> /\ ~BlockIsBlank(content)
        THEN <<[block |-> content, start_line |-> 1]>>
        ELSE kept

\* split_by_separator
split_by_separator(content) ==
    LET blocks == SplitFrom(content, 1, <<>>, 1, <<>>)
    IN  IF blocks = <<>> /\ ~BlockIsBlank(content)
        THEN <<[block |-> content, start_line |-> 1]>>
        ELSE blocks

\* parse_duration, in milliseconds
parse_duration(text) ==
    LET s == Trim(text)
        Digits(n) == SubSeq(s, 1, Len(s) - n)
    IN  IF EndsWith(s, <<"m", "s">>)
        THEN IF IsDigits(Digits(2)) THEN Ok(StrToNat(Digits(2))) ELSE Err("InvalidMetadata")
        ELSE IF EndsWith(s, <<"s">>)
        THEN IF IsDigits(Digits(1)) THEN Ok(StrToNat(Digits(1)) * 1000)
             ELSE Err("InvalidMetadata")
        ELSE IF EndsWith(s, <<"m">>)
        THEN IF IsDigits(Digits(1)) THEN Ok(StrToNat(Digits(1)) * 60000)
             ELSE Err("InvalidMetadata")
        ELSE Err("InvalidMetadata")

S_at_name == <<"@", "n", "a", "m", "e">>
S_at_skip == <<"@", "s", "k", "i", "p">>
S_at_timeout == <<"@", "t", "i", "m", "e", "o", "u", "t">>

\* parse_metadata_line: Ok(metadata) or Err
parse_metadata_line(text, metadata) ==
    LET line == Trim(text)
        After(prefix) == Trim(SubSeq(line, Len(prefix) + 1, Len(line)))
    IN  IF StartsWith(line, S_at_name)
        THEN Ok([metadata EXCEPT !.name = Some(After(S_at_name))])
        ELSE IF StartsWith(line, S_at_skip)
        THEN Ok([metadata EXCEPT !.skip = After(S_at_skip) # S_false])
        ELSE IF StartsWith(line, S_at_timeout)
        THEN LET d == parse_duration(After(S_at_timeout))
             IN  IF d.ok THEN Ok([metadata EXCEPT !.timeout = Some(d.v)]) ELSE d
        ELSE Ok(metadata)

valid_methods ==
    (<<"G","E","T">> :> "GET") @@ (<<"P","O","S","T">> :> "POST")
    @@ (<<"P","U","T">> :> "PUT") @@ (<<"D","E","L","E","T","E">> :> "DELETE")
    @@ (<<"P","A","T","C","H">> :> "PATCH") @@ (<<"H","E","A","D">> :> "HEAD")
    @@ (<<"O","P","T","I","O","N","S">> :> "OPTIONS")

\* parse_request_line: Ok(request with method and url) or Err
parse_request_line(line, request) ==
    LET parts == split_whitespace(line)
    IN  IF Len(parts) = 0 THEN Err("InvalidFormat")
        ELSE IF Len(parts) = 1
        THEN Ok([request EXCEPT !.url = parts[1], !.method = NoneOpt])
        ELSE IF Len(parts) = 2
        THEN IF ToUpper(parts[1]) \in DOMAIN valid_methods
             THEN Ok([request EXCEPT !.method = Some(valid_methods[ToUpper(parts[1])]),
                                     !.url = parts[2]])
             ELSE Err("InvalidMethod")
        ELSE Err("InvalidFormat")

\* parse_header: Some(<<key, value>>) or None
parse_header(line) ==
    LET colon_pos == Find(line, <<":">>)
        key == Trim(SubSeq(line, 1, colon_pos - 1))
        value == Trim(SubSeq(line, colon_pos + 1, Len(line)))
    IN  IF colon_pos # 0 /\ key # <<>> THEN Some(<<key, value>>) ELSE NoneOpt

\* ParsedRequest::new
NewParsedRequest(line_number) ==
    [method |-> NoneOpt, url |-> <<>>, headers |-> <<>>, body |-> NoneOpt,
     metadata |-> [name |-> NoneOpt, skip |-> FALSE, timeout |-> NoneOpt,
                   assertions |-> <<>>, captures |-> <<>>],
     line_number |-> line_number]

\* first loop of parse_request_block: blank lines, comments and metadata from
\* line i on; Ok([at, metadata]) with the index of the first other line, or Err
RECURSIVE MetadataLoop(_, _, _)
MetadataLoop(lines, i, metadata) ==
    IF i > Len(lines) THEN Ok([at |-> i, metadata |-> metadata])
    ELSE LET line == Trim(lines[i])
         IN  IF line = <<>> \/ is_comment(line) THEN MetadataLoop(lines, i + 1, metadata)
             ELSE IF is_metadata(line)
             THEN LET m == parse_metadata_line(line, metadata)
                  IN  IF m.ok THEN MetadataLoop(lines, i + 1, m.v) ELSE m
             ELSE Ok([at |-> i, metadata |-> metadata])

\* second loop: headers until a blank line; the headers and the index at
\* which the body starts
RECURSIVE HeaderLoop(_, _, _)
HeaderLoop(lines, i, headers) ==
    IF i > Len(lines) THEN [at |-> i, headers |-> headers]
    ELSE LET line == Trim(lines[i])
         IN  IF line = <<>> THEN [at |-> i + 1, headers |-> headers]
             ELSE IF is_comment(line) \/ ~IsSome(parse_header(line))
             THEN HeaderLoop(lines, i + 1, headers)
             ELSE HeaderLoop(lines, i + 1, Append(headers, Unwrap(parse_header(line))))

\* parse_request_block 153-157
BlockFinish(request) ==
    IF request.url = <<>> THEN Err("MissingUrl") ELSE Ok(Some(request))

\* parse_request_block 143-150: the body is what follows the headers, trimmed
BlockBody(req, hl, body) ==
    BlockFinish([req EXCEPT !.headers = hl.headers,
                            !.body = IF body # <<>> THEN Some(body) ELSE NoneOpt])

\* parse_request_block 116-141: the request line, then the headers
BlockRequestLine(req, lines, at, hl) ==
    IF ~req.ok THEN req
    ELSE BlockBody(req.v, hl, Trim(JoinLines(SubSeq(lines, hl.at, Len(lines)))))

\* parse_request_block 80-116 once the first loop has run
BlockAfterMetadata(meta, lines, start_line) ==
    IF Len(lines) = 0 THEN Ok(NoneOpt)
    ELSE IF ~meta.ok THEN meta
    ELSE IF meta.v.at > Len(lines) THEN Ok(NoneOpt)
    ELSE BlockRequestLine(
             parse_request_line(Trim(lines[meta.v.at]),
                                [NewParsedRequest(start_line)
                                    EXCEPT !.metadata = meta.v.metadata]),
             lines, meta.v.at, HeaderLoop(lines, meta.v.at + 1, <<>>))

\* parse_request_block: Ok(Some(request)), Ok(None) or Err
parse_request_block(lines, start_line) ==
    BlockAfterMetadata(MetadataLoop(lines, 1, NewParsedRequest(start_line).metadata),
                       lines, start_line)

\* the block loop of parse_content after one block: the first Err ends it
RECURSIVE ParseBlocks(_, _)
ParseBlocksNext(r, blocks, requests) ==
    IF ~r.ok THEN r
    ELSE ParseBlocks(Tail(blocks),
                     IF IsSome(r.v) THEN Append(requests, Unwrap(r.v)) ELSE requests)

\* the block loop of parse_content: Ok(requests) or the first Err
ParseBlocks(blocks, requests) ==
    IF Len(blocks) = 0 THEN Ok(requests)
    ELSE ParseBlocksNext(parse_request_block(blocks[1].block, blocks[1].start_line),
                         blocks, requests)

\* a block loop that drops the failing block and keeps the others
RECURSIVE ParseBlocks_SkipFailing(_, _)
ParseBlocksNext_SkipFailing(r, blocks, requests) ==
    ParseBlocks_SkipFailing(Tail(blocks),
        IF r.ok /\ IsSome(r.v) THEN Append(requests, Unwrap(r.v)) ELSE requests)

ParseBlocks_SkipFailing(blocks, requests) ==
    IF Len(blocks) = 0 THEN Ok(requests)
    ELSE ParseBlocksNext_SkipFailing(
             parse_request_block(blocks[1].block, blocks[1].start_line), blocks, requests)

\* parse_content 34-38: no request at all is an error
ParsedFileOf(file) ==
    IF ~file.ok THEN file
    ELSE IF file.v = <<>> THEN Err("NoRequests")
    ELSE file

\* parse_content 24-32 with blocks that keep the requests of the good blocks
ParseContentBlocks_KeepParsed(blocks) ==
    IF blocks = <<>> THEN Err("NoRequests")
    ELSE ParsedFileOf(ParseBlocks_SkipFailing(blocks, <<>>))

\* parse_content 24-32
ParseContentBlocks(blocks) ==
    IF blocks = <<>> THEN Err("NoRequests")
    ELSE ParsedFileOf(ParseBlocks(blocks, <<>>))

\* a parse_content that returns the blocks that parsed when another failed
parse_content_KeepParsed(content) == ParseContentBlocks_KeepParsed(split_by_separator(content))

\* HttpFileParser::parse_content: Ok(requests) or Err
parse_content(content) == ParseContentBlocks(split_by_separator(content))

(* ------------------------------------------------------------------ *)
(* MarkdownFileParser (parser/markdown_file.rs); a Markdown document is *)
(* the sequence of the headings and fenced code blocks pulldown-cmark   *)
(* reports for it                                                       *)
(* ------------------------------------------------------------------ *)
\* a heading with the inline events between its Start and End: Event::Text
\* for plain text, Event::Code for a code span
MdText(s) == [ev |-> "Text", s |-> s]
MdCode(s) == [ev |-> "Code", s |-> s]
Heading(inlines) == [md |-> "heading", inlines |-> inlines]
Fence(lang, content) == [md |-> "fence", lang |-> lang, content |-> content]

\* markdown_file.rs 66-70: header_text collects the Event::Text of the heading
RECURSIVE header_text(_)
header_text(inlines) ==
    IF Len(inlines) = 0 THEN <<>>
    ELSE (IF Head(inlines).ev = "Text" THEN Head(inlines).s ELSE <<>>)
         \o header_text(Tail(inlines))

\* markdown_file.rs 59-63: a heading with collected text becomes the header
HeaderAfter(text, current_header) == IF text # <<>> THEN Some(text) ELSE current_header

\* extract_code_blocks: the http/rest blocks with the heading before them
RECURSIVE ExtractFrom(_, _, _)
ExtractFrom(events, i, current_header) ==
    IF i > Len(events) THEN <<>>
    ELSE IF events[i].md = "heading"
    THEN ExtractFrom(events, i + 1,
                     HeaderAfter(header_text(events[i].inlines), current_header))
    ELSE IF ToLower(events[i].lang) \in {<<"h","t","t","p">>, <<"r","e","s","t">>}
    THEN <<[content |-> events[i].content, preceding_header |-> current_header]>>
         \o ExtractFrom(events, i + 1, current_header)
    ELSE ExtractFrom(events, i + 1, current_header)

extract_code_blocks(events) == ExtractFrom(events, 1, NoneOpt)

\* markdown_file.rs 27-31: a request without a name takes the heading
NamedRequests(requests, preceding_header) ==
    [i \in 1..Len(requests) |->
        IF IsSome(requests[i].metadata.name) THEN requests[i]
        ELSE [requests[i] EXCEPT !.metadata.name = preceding_header]]

\* the loop of MarkdownFileParser::parse_content after one code block
RECURSIVE ParseCodeBlocks(_, _)
ParseCodeBlocksNext(block_parsed, code_blocks, requests) ==
    IF ~block_parsed.ok THEN block_parsed
    ELSE ParseCodeBlocks(Tail(code_blocks),
                         requests \o NamedRequests(block_parsed.v,
                                                   code_blocks[1].preceding_header))

\* the loop of MarkdownFileParser::parse_content: Ok(requests) or the first Err
ParseCodeBlocks(code_blocks, requests) ==
    IF Len(code_blocks) = 0 THEN Ok(requests)
    ELSE ParseCodeBlocksNext(parse_content(code_blocks[1].content), code_blocks, requests)

\* MarkdownFileParser::parse_content
markdown_parse_content(events) == ParseCodeBlocks(extract_code_blocks(events), <<>>)

(* ------------------------------------------------------------------ *)
(* Test results (runner/types.rs)                                      *)
(* ------------------------------------------------------------------ *)
\* TestResult::success
TestResult_success(request_number, name, method, url, response) ==
    [request_number |-> request_number, name |-> name, method |-> method, url |-> url,
     status |-> Some(response.status), duration |-> response.duration,
     success |-> is_success(response.status), error |-> NoneOpt,
     response |-> Some(response), skipped |-> FALSE, assertions |-> <<>>]

\* TestResult::error
TestResult_error(request_number, name, method, url, error, duration) ==
    [request_number |-> request_number, name |-> name, method |-> method, url |-> url,
     status |-> NoneOpt, duration |-> duration,
     success |-> FALSE, error |-> Some(error),
     response |-> NoneOpt, skipped |-> FALSE, assertions |-> <<>>]

\* TestResult::skipped
TestResult_skipped(request_number, name, method, url) ==
    [request_number |-> request_number, name |-> name, method |-> method, url |-> url,
     status |-> NoneOpt, duration |-> 0,
     success |-> TRUE, error |-> NoneOpt,
     response |-> NoneOpt, skipped |-> TRUE, assertions |-> <<>>]

(* ------------------------------------------------------------------ *)
(* Inputs of a run                                                     *)
(* ------------------------------------------------------------------ *)
\* longest document of a run
MaxSpecs == 2

\* Client::new: the transport timeout of every request, in seconds
DEFAULT_TIMEOUT_SECS == 30
DefaultTimeoutMs == DEFAULT_TIMEOUT_SECS * 1000

ParsedRequest(url, headers, body, skip, timeout, assertions, captures) ==
    [method |-> NoneOpt, url |-> url, headers |-> headers, body |-> body,
     metadata |-> [name |-> NoneOpt, skip |-> skip, timeout |-> timeout,
                   assertions |-> assertions, captures |-> captures]]

V_t == <<"t">>
T_var == <<"{", "{", "t", "}", "}">>
U_login == <<"h", "/", "a">>
U_use == <<"h", "/">> \o T_var
U_badport == <<"h", ":", "x">>
A_self == S_body_dot \o <<"t", " ", "=", "=", " ">> \o T_var
A_status == S_status \o <<" ", "=", "=", " ", "2", "0", "0">>
C_token == VariableCapture_parse(V_t, S_body_dot \o <<"t">>)
C_missing == VariableCapture_parse(<<"u">>, S_body_dot \o <<"u">>)

\* @capture t from body.t, @assert body.t == {{t}}
SpecLogin == ParsedRequest(U_login, <<>>, NoneOpt, FALSE, NoneOpt, <<A_self>>, <<C_token>>)
\* a request templated with {{t}} in url, header value and body; @timeout 1s
SpecUse == ParsedRequest(U_use, << <<<<"A">>, T_var>> >>, Some(T_var), FALSE, Some(1000),
                         <<A_status>>, <<>>)
\* @skip on a spec that would otherwise capture
SpecSkip == ParsedRequest(U_use, <<>>, NoneOpt, TRUE, NoneOpt, <<A_status>>, <<C_token>>)
\* a url the url parser rejects
SpecBadUrl == ParsedRequest(U_badport, <<>>, NoneOpt, FALSE, NoneOpt, <<A_status>>, <<C_token>>)
\* a header line "X Y: v": the name is not a valid header name
SpecBadHeader == ParsedRequest(U_login, << <<<<"X", " ", "Y">>, <<"v">>>> >>, NoneOpt, FALSE,
                               NoneOpt, <<>>, <<>>)
\* no assertions; @capture t from body.t, @capture u from body.u
SpecPlain == ParsedRequest(U_login, <<>>, NoneOpt, FALSE, NoneOpt, <<>>,
                           <<C_token, C_missing>>)

\* @assert status == 200, then @assert status == " (a lone quote as value)
A_lonequote == S_status \o <<" ", "=", "=", " ", "\"">>
SpecLoneQuote == ParsedRequest(U_login, <<>>, NoneOpt, FALSE, NoneOpt,
                               <<A_status, A_lonequote>>, <<>>)
\* Content-Type: text/plain with the body {}
S_text_plain == <<"t","e","x","t","/","p","l","a","i","n">>
H_content_type == <<"C","o","n","t","e","n","t","-","T","y","p","e">>
SpecTextJson == ParsedRequest(U_login, << <<H_content_type, S_text_plain>> >>,
                              Some(<<"{", "}">>), FALSE, NoneOpt, <<>>, <<>>)

SpecPool == {SpecLogin, SpecUse, SpecSkip, SpecBadUrl, SpecBadHeader, SpecPlain,
             SpecLoneQuote, SpecTextJson}

Docs == UNION {[1..n -> SpecPool] : n \in 1..MaxSpecs}

Response(status, body, duration) ==
    [status |-> status, headers |-> <<>>, body |-> body, duration |-> duration]

TokenBody(v) == JObject(V_t :> JString(v))

ResponsePool ==
    {Response(200, TokenBody(<<"a", "b">>), 5),
     Response(201, JObject(V_t :> JNumber(7)), 5),
     Response(404, InvalidJson, 5),
     Response(200, TokenBody(<<"a", "b">>), 2000)}

\* elapsed time of a transport failure: refused at once, or timed out
ErrorElapsed == {5, DefaultTimeoutMs}

\* process environment variables
OsEnvPool == {<<>>}

(* ------------------------------------------------------------------ *)
(* State                                                               *)
(* ------------------------------------------------------------------ *)
VARIABLES
    parsed_file,      \* ParsedFile.requests handed to execute_all
    osEnv,            \* process environment read by resolve_env_vars
    historyWritable,  \* whether the history file can be opened and written
    context,          \* VariableContext threaded through the run
    results,          \* Vec<TestResult> of execute_all
    index,            \* number of specs the for loop has consumed
    pc,               \* position of the executor
    cur,              \* frame of the running execute_one, if any
    sent,             \* requests handed to the HTTP client, in order
    inflight,         \* request numbers awaiting the transport
    appends,          \* calls of HistoryStorage::append made by the run
    histFile,         \* content of the history file, as written chunks
    lockExcl,         \* holder of the exclusive file lock, if any
    wpc,              \* position of each concurrent writer inside append
    wcount,           \* appends each concurrent writer has completed
    appended,         \* entries in the order their records were written
    lockShared,       \* readers holding the shared file lock
    rpc,              \* position of each reader inside list
    rbuf,             \* what each reader's BufReader has read so far
    to_keep,          \* entries a compacting reader is about to rewrite
    listed,           \* what list returned to each reader
    tailed,           \* what tail returned to each reader, with its n
    source,           \* the test file handed to run_test
    parse_result,     \* what the file parser returned for it
    assertion,        \* an assertion text and the response it is evaluated on
    evaluated,        \* the AssertionResult of that evaluation
    res_template,     \* a template text, as the pieces it is written from
    res_outputs       \* what successive calls of resolve returned for it

vars == <<parsed_file, osEnv, historyWritable, context, results, index, pc, cur,
          sent, inflight, appends, histFile, lockExcl, wpc, wcount,
          appended, lockShared, rpc, rbuf, to_keep, listed, tailed,
          source, parse_result, assertion, evaluated, res_template, res_outputs>>

parserVars == <<source, parse_result>>

evalVars == <<assertion, evaluated>>

resolverVars == <<res_template, res_outputs>>

execVars == <<parsed_file, osEnv, historyWritable, context, results, index, pc, cur,
              sent, inflight, appends, parserVars, evalVars, resolverVars>>

writerVars == <<lockExcl, wpc, wcount>>

readerVars == <<lockShared, rpc, rbuf, to_keep, listed, tailed>>

(* ------------------------------------------------------------------ *)
(* History file (history/storage.rs, history/model.rs)                 *)
(* ------------------------------------------------------------------ *)
\* one write() of the serialized entry, and one of the line terminator
JsonChunk(entry) == [c |-> "json", entry |-> entry]
NewlineChunk == [c |-> "nl"]
\* the content of a line that is text but not an entry record, and of a line
\* whose bytes are not valid UTF-8
GarbageChunk == [c |-> "text"]
InvalidUtf8Chunk == [c |-> "bytes"]

\* HistoryEntry; the id stands for the fresh UUID
HistoryEntry(id, duration_ms, request, response) ==
    [id |-> id, duration_ms |-> duration_ms, request |-> request,
     response |-> [status |-> response.status, headers |-> response.headers]]

\* write! instead of writeln!: the line terminator is missing
AppendedFile_NoNewline(file, entry) == Append(file, JsonChunk(entry))

\* writeln!(file, "{}", json) on a file opened for append
AppendedFile(file, entry) == file \o <<JsonChunk(entry), NewlineChunk>>

\* BufRead::lines: the chunks between line terminators
RECURSIVE FileLines(_)
FileLines(file) ==
    LET nls == {i \in 1..Len(file) : file[i] = NewlineChunk}
    IN  IF file = <<>> THEN <<>>
        ELSE IF nls = {} THEN <<file>>
        ELSE <<SubSeq(file, 1, Min(nls) - 1)>>
             \o FileLines(SubSeq(file, Min(nls) + 1, Len(file)))

\* serde_json::from_str::<HistoryEntry>(line): a line parses when it holds
\* exactly one serialized entry
LineParses(line) == Len(line) = 1 /\ line[1].c = "json"

\* BufRead::lines yields Err(InvalidData) for a line that is not valid UTF-8
LineIsUtf8(line) == \A i \in 1..Len(line) : line[i] # InvalidUtf8Chunk

\* the loop of read_all: blank lines and malformed lines are skipped
RECURSIVE ParseLines(_)
ParseLines(lines) ==
    IF Len(lines) = 0 THEN <<>>
    ELSE IF LineParses(lines[1]) THEN <<lines[1][1].entry>> \o ParseLines(Tail(lines))
    ELSE ParseLines(Tail(lines))

\* read_all 119-129: `line.map_err(IoError)?` returns the error of the first
\* line that cannot be decoded, otherwise the entries of the lines that parse
read_all(file) ==
    IF \E i \in 1..Len(FileLines(file)) : ~LineIsUtf8(FileLines(file)[i])
    THEN Err("IoError")
    ELSE Ok(ParseLines(FileLines(file)))

\* compact_if_needed 161-168: lines().map_while(|l| l.ok()) stops at the first
\* line that cannot be decoded
CompactionEntries(file) ==
    LET lines == FileLines(file)
        bad == {i \in 1..Len(lines) : ~LineIsUtf8(lines[i])}
    IN  ParseLines(IF bad = {} THEN lines ELSE SubSeq(lines, 1, Min(bad) - 1))

(* ------------------------------------------------------------------ *)
(* TestExecutor (runner/executor.rs)                                   *)
(* ------------------------------------------------------------------ *)
\* a skip flag that is never honoured
should_skip_Never(parsed) == FALSE

\* ParsedRequest::should_skip
should_skip(parsed) == parsed.metadata.skip

\* step 1 of execute_one: url, header values and body resolved in place
ResolveRequest(parsed, env, ctx) ==
    [parsed EXCEPT
        !.url = resolve(@, env, ctx),
        !.headers = [i \in 1..Len(@) |-> <<@[i][1], resolve(@[i][2], env, ctx)>>],
        !.body = IF IsSome(@) THEN Some(resolve(Unwrap(@), env, ctx)) ELSE NoneOpt]

\* the header map of the request snapshot keeps the pairs that parse
RECURSIVE SnapshotHeaders(_, _)
SnapshotHeaders(acc, headers) ==
    IF Len(headers) = 0 THEN acc
    ELSE LET r == insert_header(acc, headers[1][1], headers[1][2])
         IN  SnapshotHeaders(IF r.ok THEN r.v ELSE acc, Tail(headers))

\* a snapshot that leaves the headers out
RequestSnapshot_NoHeaders(parsed) ==
    [method |-> method_or_default(parsed), url |-> parsed.url,
     headers |-> <<>>, body |-> parsed.body]

\* executor.rs 90-107: the snapshot taken from the resolved spec
RequestSnapshot(parsed) ==
    [method |-> method_or_default(parsed), url |-> parsed.url,
     headers |-> SnapshotHeaders(<<>>, parsed.headers), body |-> parsed.body]

\* a loop that starts the next iteration while a request is still awaited
LoopReady_NoAwait(p) == p \in {"loop", "await"}

\* the for loop of execute_all starts an iteration only after the awaited
\* execute_one of the previous iteration has returned
LoopReady(p) == p = "loop"

\* enumerate(): the loop moves to the next spec
NextIndex(i) == i + 1

\* one assertion of the loop at executor.rs 171-186
AssertOne(assertion_str, env, ctx, response) ==
    LET parsed == parse_assertion(resolve(assertion_str, env, ctx))
    IN  IF parsed.ok THEN evaluate_assertion(parsed.v, response)
        ELSE AssertionError(assertion_str, parsed.e)

AssertionPanics(assertion_str, env, ctx) ==
    LET parsed == parse_assertion(resolve(assertion_str, env, ctx))
    IN  ~parsed.ok /\ parsed.e = "Panic"

\* a result that keeps the success flag whatever the assertions say
ResponseResult_IgnoreAssertions(request_number, name, method, url, response, assertion_results) ==
    [TestResult_success(request_number, name, method, url, response)
        EXCEPT !.assertions = assertion_results]

\* executor.rs 189-196: the result of a request that got a response
ResponseResult(request_number, name, method, url, response, assertion_results) ==
    LET test_result == TestResult_success(request_number, name, method, url, response)
    IN  [test_result EXCEPT
            !.assertions = assertion_results,
            !.success = IF \E i \in 1..Len(assertion_results) : ~assertion_results[i].passed
                        THEN FALSE ELSE @]

Frame == Unwrap(cur)

\* execute_all 37-45: a spec with the skip flag
SkipRequest ==
    /\ LoopReady(pc)
    /\ index < Len(parsed_file)
    /\ should_skip(parsed_file[index + 1])
    /\ LET parsed == parsed_file[index + 1]
       IN  results' = Append(results,
               TestResult_skipped(index + 1, parsed.metadata.name,
                                  method_or_default(parsed), parsed.url))
    /\ index' = NextIndex(index)
    /\ UNCHANGED <<parsed_file, osEnv, historyWritable, context, pc, cur, sent,
                   inflight, appends, histFile, writerVars, appended, readerVars,
                   parserVars, evalVars, resolverVars>>

\* execute_one 63-125: resolve, snapshot, build and hand to the client
StartRequest ==
    /\ LoopReady(pc)
    /\ index < Len(parsed_file)
    /\ ~should_skip(parsed_file[index + 1])
    /\ LET request_number == index + 1
           parsed == ResolveRequest(parsed_file[index + 1], osEnv, context)
           built == try_from(parsed)
       IN  IF ~built.ok /\ built.e = "Panic"
           THEN /\ pc' = "panicked"
                /\ UNCHANGED <<results, index, cur, sent, inflight>>
           ELSE IF ~built.ok
           THEN /\ results' = Append(results,
                        TestResult_error(request_number, parsed.metadata.name,
                                         method_or_default(parsed), parsed.url,
                                         "Failed to build request", 0))
                /\ index' = NextIndex(index)
                /\ UNCHANGED <<pc, cur, sent, inflight>>
           ELSE /\ cur' = Some([request_number |-> request_number,
                                parsed |-> parsed,
                                request_snapshot |-> RequestSnapshot(parsed),
                                response |-> NoneOpt])
                /\ sent' = Append(sent, [request_number |-> request_number,
                                         parsed |-> parsed,
                                         request |-> built.v])
                /\ inflight' = inflight \cup {request_number}
                /\ pc' = "await"
                /\ UNCHANGED <<results, index>>
    /\ UNCHANGED <<parsed_file, osEnv, historyWritable, context, appends, histFile,
                   writerVars, appended, readerVars,
                   parserVars, evalVars, resolverVars>>

\* a failure branch that still records the request in the history
TransportError_Recorded(elapsed) ==
    /\ pc = "await"
    /\ results' = Append(results,
            TestResult_error(Frame.request_number, Frame.parsed.metadata.name,
                             method_or_default(Frame.parsed), Frame.parsed.url,
                             "Request failed", elapsed))
    /\ index' = NextIndex(index)
    /\ inflight' = inflight \ {Frame.request_number}
    /\ cur' = NoneOpt
    /\ pc' = "loop"
    /\ LET entry == HistoryEntry(<<0, Frame.request_number>>, elapsed,
                                 Frame.request_snapshot, [status |-> 0, headers |-> <<>>])
       IN  /\ appends' = Append(appends, [request_number |-> Frame.request_number,
                                          entry |-> entry, ok |-> historyWritable])
           /\ histFile' = IF historyWritable THEN AppendedFile(histFile, entry)
                          ELSE histFile
    /\ UNCHANGED <<parsed_file, osEnv, historyWritable, context, sent, writerVars, appended, readerVars,
                   parserVars, evalVars, resolverVars>>

\* execute_one 200-207: the client returned an error
TransportError(elapsed) ==
    /\ pc = "await"
    /\ results' = Append(results,
            TestResult_error(Frame.request_number, Frame.parsed.metadata.name,
                             method_or_default(Frame.parsed), Frame.parsed.url,
                             "Request failed", elapsed))
    /\ index' = NextIndex(index)
    /\ inflight' = inflight \ {Frame.request_number}
    /\ cur' = NoneOpt
    /\ pc' = "loop"
    /\ UNCHANGED <<parsed_file, osEnv, historyWritable, context, sent, appends,
                   histFile, writerVars, appended, readerVars,
                   parserVars, evalVars, resolverVars>>

\* Client::execute returned a response; only the client's own timeout bounds
\* the wait
TransportResponse(response) ==
    /\ pc = "await"
    /\ response.duration < DefaultTimeoutMs
    /\ cur' = Some([Frame EXCEPT !.response = Some(response)])
    /\ inflight' = inflight \ {Frame.request_number}
    /\ pc' = "history"
    /\ UNCHANGED <<parsed_file, osEnv, historyWritable, context, results, index, sent,
                   appends, histFile, writerVars, appended, readerVars,
                   parserVars, evalVars, resolverVars>>

\* a history step that ends the request with an error when the append fails
RecordHistory_FailsRequest ==
    /\ pc = "history"
    /\ appends' = Append(appends,
            [request_number |-> Frame.request_number,
             entry |-> HistoryEntry(<<0, Frame.request_number>>,
                                    Unwrap(Frame.response).duration,
                                    Frame.request_snapshot, Unwrap(Frame.response)),
             ok |-> historyWritable])
    /\ histFile' = IF historyWritable
                   THEN AppendedFile(histFile,
                                     HistoryEntry(<<0, Frame.request_number>>,
                                                  Unwrap(Frame.response).duration,
                                                  Frame.request_snapshot,
                                                  Unwrap(Frame.response)))
                   ELSE histFile
    /\ IF historyWritable
       THEN /\ pc' = "capture"
            /\ UNCHANGED <<results, index, cur>>
       ELSE /\ results' = Append(results,
                    TestResult_error(Frame.request_number, Frame.parsed.metadata.name,
                                     method_or_default(Frame.parsed), Frame.parsed.url,
                                     "Failed to save request history", 0))
            /\ index' = NextIndex(index)
            /\ cur' = NoneOpt
            /\ pc' = "loop"
    /\ UNCHANGED <<parsed_file, osEnv, historyWritable, context, sent, inflight,
                   writerVars, appended, readerVars, parserVars, evalVars, resolverVars>>

\* execute_one 131-146: best-effort history append
RecordHistory ==
    /\ pc = "history"
    /\ LET response == Unwrap(Frame.response)
           entry == HistoryEntry(<<0, Frame.request_number>>, response.duration,
                                 Frame.request_snapshot, response)
       IN  /\ appends' = Append(appends, [request_number |-> Frame.request_number,
                                          entry |-> entry, ok |-> historyWritable])
           /\ histFile' = IF historyWritable THEN AppendedFile(histFile, entry)
                          ELSE histFile
    /\ pc' = "capture"
    /\ UNCHANGED <<parsed_file, osEnv, historyWritable, context, results, index, cur,
                   sent, inflight, writerVars, appended, readerVars,
                   parserVars, evalVars, resolverVars>>

\* a capture step that has not written the context when the assertions start
CaptureVariables_NotApplied ==
    /\ pc = "capture"
    /\ pc' = "assert"
    /\ UNCHANGED <<parsed_file, osEnv, historyWritable, context, results, index, cur,
                   sent, inflight, appends, histFile, writerVars, appended, readerVars,
                   parserVars, evalVars, resolverVars>>

\* a capture step that empties the context when a capture fails
CaptureVariables_ClearOnFailure ==
    /\ pc = "capture"
    /\ LET response == Unwrap(Frame.response)
           captures_to_eval == Frame.parsed.metadata.captures
           captured == capture_from_response(response.body, response.headers,
                                             captures_to_eval)
       IN  context' = IF captures_to_eval # <<>> /\ captured.ok
                      THEN CtxExtend(context, captured.v)
                      ELSE <<>>
    /\ pc' = "assert"
    /\ UNCHANGED <<parsed_file, osEnv, historyWritable, results, index, cur, sent,
                   inflight, appends, histFile, writerVars, appended, readerVars,
                   parserVars, evalVars, resolverVars>>

\* execute_one 148-166: captures merged into the context, failures only logged
CaptureVariables ==
    /\ pc = "capture"
    /\ LET response == Unwrap(Frame.response)
           captures_to_eval == Frame.parsed.metadata.captures
           captured == capture_from_response(response.body, response.headers,
                                             captures_to_eval)
       IN  context' = IF captures_to_eval # <<>> /\ captured.ok
                      THEN CtxExtend(context, captured.v)
                      ELSE context
    /\ pc' = "assert"
    /\ UNCHANGED <<parsed_file, osEnv, historyWritable, results, index, cur, sent,
                   inflight, appends, histFile, writerVars, appended, readerVars,
                   parserVars, evalVars, resolverVars>>

\* execute_one 168-198: assertions resolved and evaluated, result built
EvaluateAssertions ==
    /\ pc = "assert"
    /\ LET response == Unwrap(Frame.response)
           assertions_to_eval == Frame.parsed.metadata.assertions
           assertion_results ==
               [i \in 1..Len(assertions_to_eval) |->
                   AssertOne(assertions_to_eval[i], osEnv, context, response)]
       IN  IF \E i \in 1..Len(assertions_to_eval) :
                 AssertionPanics(assertions_to_eval[i], osEnv, context)
           THEN /\ pc' = "panicked"
                /\ UNCHANGED <<results, index, cur>>
           ELSE /\ results' = Append(results,
                        ResponseResult(Frame.request_number, Frame.parsed.metadata.name,
                                       method_or_default(Frame.parsed), Frame.parsed.url,
                                       response, assertion_results))
                /\ index' = NextIndex(index)
                /\ cur' = NoneOpt
                /\ pc' = "loop"
    /\ UNCHANGED <<parsed_file, osEnv, historyWritable, context, sent, inflight,
                   appends, histFile, writerVars, appended, readerVars,
                   parserVars, evalVars, resolverVars>>

\* execute_all 53: Ok(results)
Finish ==
    /\ LoopReady(pc)
    /\ index >= Len(parsed_file)
    /\ pc' = "done"
    /\ UNCHANGED <<parsed_file, osEnv, historyWritable, context, results, index, cur,
                   sent, inflight, appends, histFile, writerVars, appended, readerVars,
                   parserVars, evalVars, resolverVars>>

Init ==
    /\ parsed_file \in Docs
    /\ osEnv \in OsEnvPool
    /\ historyWritable \in BOOLEAN
    /\ context = <<>>
    /\ results = <<>>
    /\ index = 0
    /\ pc = "loop"
    /\ cur = NoneOpt
    /\ sent = <<>>
    /\ inflight = {}
    /\ appends = <<>>
    /\ histFile = <<>>
    /\ lockExcl = NoneOpt
    /\ wpc = <<>>
    /\ wcount = <<>>
    /\ appended = <<>>
    /\ lockShared = {}
    /\ rpc = <<>>
    /\ rbuf = <<>>
    /\ to_keep = <<>>
    /\ listed = <<>>
    /\ tailed = <<>>
    /\ source = NoneOpt
    /\ parse_result = NoneOpt
    /\ assertion = NoneOpt
    /\ evaluated = NoneOpt
    /\ res_template = <<>>
    /\ res_outputs = <<>>

Next ==
    \/ SkipRequest
    \/ StartRequest
    \/ \E elapsed \in ErrorElapsed : TransportError(elapsed)
    \/ \E response \in ResponsePool : TransportResponse(response)
    \/ RecordHistory
    \/ CaptureVariables
    \/ EvaluateAssertions
    \/ Finish

Spec == Init /\ [][Next]_vars

(* ------------------------------------------------------------------ *)
(* run_test (main.rs): parse the file, then execute it                  *)
(* ------------------------------------------------------------------ *)
MaxLines == 3
MaxEvents == 2

L_get == <<"G","E","T"," ","h","/","a">>
L_url == <<"h","/","b">>
L_badmethod == <<"F","O","O"," ","h","/","a">>
L_threeparts == <<"a"," ","b"," ","c">>
L_sep == <<"#","#","#">>
L_comment == <<"#"," ","c">>
L_blank == <<>>
L_skip == S_at_skip
L_badtimeout == S_at_timeout \o <<" ","x">>
L_name == S_at_name \o <<" ","n">>

LinePool == {L_get, L_url, L_badmethod, L_threeparts, L_sep, L_comment, L_blank,
             L_skip, L_badtimeout}

HttpDocs == UNION {[1..n -> LinePool] : n \in 0..MaxLines}

EventPool ==
    {Heading(<<MdText(<<"T">>)>>),
     Heading(<<MdCode(<<"U">>)>>),
     Fence(<<"h","t","t","p">>, <<L_get>>),
     Fence(<<"h","t","t","p">>, <<L_name, L_get>>),
     Fence(<<"R","E","S","T">>, <<L_badmethod>>),
     Fence(<<"h","t","t","p">>, <<L_comment>>),
     Fence(<<"j","s","o","n">>, <<L_url>>)}

MarkdownDocs == UNION {[1..n -> EventPool] : n \in 0..MaxEvents}

Sources ==
    {[kind |-> "http", content |-> d] : d \in HttpDocs}
    \cup {[kind |-> "md", content |-> d] : d \in MarkdownDocs}

\* main.rs 89-94: the parser is chosen by the file extension
ParseSource(src) ==
    IF src.kind = "md" THEN markdown_parse_content(src.content)
    ELSE parse_content(src.content)

\* main.rs 87-104: run_test parses the file and returns the parse error, or
\* hands the parsed requests to execute_all
ParseFileResult(result) ==
    /\ pc = "parse"
    /\ parse_result' = Some(result)
    /\ IF result.ok
       THEN /\ parsed_file' = result.v
            /\ pc' = "loop"
       ELSE /\ pc' = "parse_failed"
            /\ UNCHANGED parsed_file
    /\ UNCHANGED <<osEnv, historyWritable, context, results, index, cur, sent, inflight,
                   appends, histFile, writerVars, appended, readerVars, source, evalVars,
                   resolverVars>>

ParseFile == ParseFileResult(ParseSource(source))

InitParse ==
    /\ source \in Sources
    /\ parse_result = NoneOpt
    /\ parsed_file = <<>>
    /\ osEnv \in OsEnvPool
    /\ historyWritable = TRUE
    /\ context = <<>>
    /\ results = <<>>
    /\ index = 0
    /\ pc = "parse"
    /\ cur = NoneOpt
    /\ sent = <<>>
    /\ inflight = {}
    /\ appends = <<>>
    /\ histFile = <<>>
    /\ lockExcl = NoneOpt
    /\ wpc = <<>>
    /\ wcount = <<>>
    /\ appended = <<>>
    /\ lockShared = {}
    /\ rpc = <<>>
    /\ rbuf = <<>>
    /\ to_keep = <<>>
    /\ listed = <<>>
    /\ tailed = <<>>
    /\ assertion = NoneOpt
    /\ evaluated = NoneOpt
    /\ res_template = <<>>
    /\ res_outputs = <<>>

NextParse ==
    \/ ParseFile
    \/ Next

SpecParse == InitParse /\ [][NextParse]_vars

(* ------------------------------------------------------------------ *)
(* One assertion text evaluated on one response (executor.rs 171-186)  *)
(* ------------------------------------------------------------------ *)
\* {"s":"ab","b":true,"z":null,"k":7,"o":{"a":1}} with header x: ab
AssertResponse ==
    [status |-> 200,
     headers |-> (<<"x">> :> <<"a", "b">>),
     body |-> JObject((<<"s">> :> JString(<<"a", "b">>)) @@ (<<"b">> :> JBool(TRUE))
                      @@ (<<"z">> :> JNull) @@ (<<"k">> :> JNumber(7))
                      @@ (<<"o">> :> JObject(<<"a">> :> JNumber(1)))),
     duration |-> 5]

PathTexts ==
    {S_status, S_body_dot \o <<"s">>, S_body_dot \o <<"b">>, S_body_dot \o <<"z">>,
     S_body_dot \o <<"k">>, S_body_dot \o <<"o">>, S_body_dot \o <<"m">>,
     S_body_dot \o <<"s", ".", "d">>, S_headers_dot \o <<"x">>, S_headers_dot \o <<"y">>,
     <<"f", "o", "o">>}

OpTexts == {operators[k] : k \in 1..Len(operators)}

ValueTexts ==
    {<<"7">>, <<"2", "0", "0">>, <<"9">>, <<"\"", "a", "b", "\"">>, <<"\"", "a", "\"">>,
     S_true, S_false, S_null, <<"a", "b">>, <<"\"">>}

AssertionTexts ==
    {p \o <<" ">> \o o \o <<" ">> \o v : p \in PathTexts, o \in OpTexts, v \in ValueTexts}
    \cup {p \o <<" ">> \o S_exists : p \in PathTexts}
    \cup {<<>>, S_status}

\* executor.rs 171-186: the text is resolved, parsed and evaluated; a panic of
\* the parser unwinds
EvaluateAssertion ==
    /\ IsSome(assertion)
    /\ evaluated = NoneOpt
    /\ evaluated' =
          IF AssertionPanics(Unwrap(assertion).text, osEnv, context)
          THEN Some([panicked |-> TRUE])
          ELSE Some(AssertOne(Unwrap(assertion).text, osEnv, context,
                              Unwrap(assertion).response))
    /\ UNCHANGED <<parsed_file, osEnv, historyWritable, context, results, index, pc, cur,
                   sent, inflight, appends, parserVars, assertion, histFile, writerVars,
                   appended, readerVars, resolverVars>>

InitAssert ==
    /\ assertion \in {Some([text |-> t, response |-> AssertResponse]) : t \in AssertionTexts}
    /\ evaluated = NoneOpt
    /\ res_template = <<>>
    /\ res_outputs = <<>>
    /\ parsed_file = <<>>
    /\ osEnv = <<>>
    /\ historyWritable = TRUE
    /\ context = <<>>
    /\ results = <<>>
    /\ index = 0
    /\ pc = "done"
    /\ cur = NoneOpt
    /\ sent = <<>>
    /\ inflight = {}
    /\ appends = <<>>
    /\ histFile = <<>>
    /\ lockExcl = NoneOpt
    /\ wpc = <<>>
    /\ wcount = <<>>
    /\ appended = <<>>
    /\ lockShared = {}
    /\ rpc = <<>>
    /\ rbuf = <<>>
    /\ to_keep = <<>>
    /\ listed = <<>>
    /\ tailed = <<>>
    /\ source = NoneOpt
    /\ parse_result = NoneOpt

NextAssert == EvaluateAssertion

SpecAssert == InitAssert /\ [][NextAssert]_vars

(* ------------------------------------------------------------------ *)
(* Concurrent writers of one history file (HistoryStorage::append)     *)
(* ------------------------------------------------------------------ *)
\* writers (processes, or threads with their own HistoryStorage) and the
\* number of entries each appends
NWriters == 3
MAppends == 2

Writers == 1..NWriters

\* the entry writer w appends as its k-th
WriterEntry(w, k) ==
    HistoryEntry(<<w, k>>, 100,
                 [method |-> "GET", url |-> U_login, headers |-> <<>>, body |-> NoneOpt],
                 [status |-> 200, headers |-> <<>>])

\* a lock that never excludes anybody
LockFree_NoExclusion(lock) == TRUE

\* fs2 lock_exclusive returns once no other handle holds the lock
LockFree(lock) == lock = NoneOpt

\* storage.rs 64-68: open-or-create in append mode
AppendOpen(w) ==
    /\ wpc[w] = "idle"
    /\ wcount[w] < MAppends
    /\ wpc' = [wpc EXCEPT ![w] = "opened"]
    /\ UNCHANGED <<execVars, histFile, lockExcl, wcount, appended, readerVars>>

\* storage.rs 71: file.lock_exclusive() blocks until the lock is free
AppendLock(w) ==
    /\ wpc[w] = "opened"
    /\ LockFree(lockExcl)
    /\ lockShared = {}
    /\ lockExcl' = Some(w)
    /\ wpc' = [wpc EXCEPT ![w] = "locked"]
    /\ UNCHANGED <<execVars, histFile, wcount, appended, readerVars>>

\* storage.rs 73: writeln! writes the serialized entry ...
AppendWriteJson(w) ==
    /\ wpc[w] = "locked"
    /\ histFile' = Append(histFile, JsonChunk(WriterEntry(w, wcount[w] + 1)))
    /\ appended' = Append(appended, WriterEntry(w, wcount[w] + 1))
    /\ wpc' = [wpc EXCEPT ![w] = "json"]
    /\ UNCHANGED <<execVars, lockExcl, wcount, readerVars>>

\* ... and then the line terminator, as a second write at the end of file
AppendWriteNewline(w) ==
    /\ wpc[w] = "json"
    /\ histFile' = Append(histFile, NewlineChunk)
    /\ wpc' = [wpc EXCEPT ![w] = "written"]
    /\ UNCHANGED <<execVars, lockExcl, wcount, appended, readerVars>>

\* storage.rs 76-78: drop(file) releases the lock; append returns Ok
AppendDrop(w) ==
    /\ wpc[w] = "written"
    /\ lockExcl' = IF lockExcl = Some(w) THEN NoneOpt ELSE lockExcl
    /\ wcount' = [wcount EXCEPT ![w] = @ + 1]
    /\ wpc' = [wpc EXCEPT ![w] = "idle"]
    /\ UNCHANGED <<execVars, histFile, appended, readerVars>>

InitHist ==
    /\ parsed_file = <<>>
    /\ osEnv = <<>>
    /\ historyWritable = TRUE
    /\ context = <<>>
    /\ results = <<>>
    /\ index = 0
    /\ pc = "done"
    /\ cur = NoneOpt
    /\ sent = <<>>
    /\ inflight = {}
    /\ appends = <<>>
    /\ histFile = <<>>
    /\ lockExcl = NoneOpt
    /\ wpc = [w \in Writers |-> "idle"]
    /\ wcount = [w \in Writers |-> 0]
    /\ appended = <<>>
    /\ lockShared = {}
    /\ rpc = <<>>
    /\ rbuf = <<>>
    /\ to_keep = <<>>
    /\ listed = <<>>
    /\ tailed = <<>>
    /\ source = NoneOpt
    /\ parse_result = NoneOpt
    /\ assertion = NoneOpt
    /\ evaluated = NoneOpt
    /\ res_template = <<>>
    /\ res_outputs = <<>>

NextHist ==
    \E w \in Writers :
        \/ AppendOpen(w)
        \/ AppendLock(w)
        \/ AppendWriteJson(w)
        \/ AppendWriteNewline(w)
        \/ AppendDrop(w)

SpecHist == InitHist /\ [][NextHist]_vars

\* every append of every writer has returned Ok
AllAppendsReturned == \A w \in Writers : wcount[w] = MAppends /\ wpc[w] = "idle"

\* the entries all writers append
AllWriterEntries == {WriterEntry(w, k) : w \in Writers, k \in 1..MAppends}

SeqToSet(q) == {q[i] : i \in 1..Len(q)}

(* ------------------------------------------------------------------ *)
(* Readers: HistoryStorage::list next to concurrent appends            *)
(* ------------------------------------------------------------------ *)
\* writers still appending while the readers run, and the readers
NActiveWriters == 2
NReaders == 2

\* storage.rs 13 and 15, scaled: the size of the file is counted in written
\* chunks (a record and its line terminator are two), the entries in lines
COMPACTION_THRESHOLD_BYTES == 10
MAX_ENTRIES == 3

Readers == 1..NReaders

\* the file handle of reader r, as holder of the exclusive lock
ReaderHandle(r) == NWriters + r

\* metadata.len()
FileSize(file) == Len(file)

\* the file after writeln! of every entry
RECURSIVE WrittenLines(_)
WrittenLines(entries) ==
    IF entries = <<>> THEN <<>>
    ELSE <<JsonChunk(entries[1]), NewlineChunk>> \o WrittenLines(Tail(entries))

\* entries.iter().skip(entries.len() - MAX_ENTRIES)
LastEntries(entries, n) ==
    SubSeq(entries, Len(entries) - Min({n, Len(entries)}) + 1, Len(entries))

\* appends already completed by each writer when the readers start
CompletedBefore(w) == IF w <= NActiveWriters THEN MAppends - 1 ELSE MAppends

\* the entries of those appends, in the order they were written
EarlierEntries ==
    LET all == [i \in 1..(NWriters * MAppends) |->
                   <<((i - 1) % NWriters) + 1, ((i - 1) \div NWriters) + 1>>]
        done == SelectSeq(all, LAMBDA p : p[2] <= CompletedBefore(p[1]))
    IN  [i \in 1..Len(done) |-> WriterEntry(done[i][1], done[i][2])]

\* a shared lock that is granted while a writer holds the exclusive lock
SharedLockFree_NoWait(lock) == TRUE

\* fs2 lock_shared returns once no handle holds the exclusive lock
SharedLockFree(lock) == lock = NoneOpt

\* storage.rs 134-147: list calls compact_if_needed, which opens the file and
\* looks at its size without a lock
CompactCheck(r) ==
    /\ rpc[r] = "idle"
    /\ rpc' = [rpc EXCEPT ![r] = IF FileSize(histFile) < COMPACTION_THRESHOLD_BYTES
                                 THEN "read_open" ELSE "compact_wait"]
    /\ UNCHANGED <<execVars, writerVars, histFile, appended, lockShared, rbuf,
                   to_keep, listed, tailed>>

\* a compaction that does not wait for the lock
CompactLock_NoWait(r) ==
    /\ rpc[r] = "compact_wait"
    /\ lockExcl' = Some(ReaderHandle(r))
    /\ rpc' = [rpc EXCEPT ![r] = "compact_locked"]
    /\ UNCHANGED <<execVars, wpc, wcount, histFile, appended, lockShared, rbuf, to_keep, listed, tailed>>

\* storage.rs 150: file.lock_exclusive()
CompactLock(r) ==
    /\ rpc[r] = "compact_wait"
    /\ LockFree(lockExcl)
    /\ lockShared = {}
    /\ lockExcl' = Some(ReaderHandle(r))
    /\ rpc' = [rpc EXCEPT ![r] = "compact_locked"]
    /\ UNCHANGED <<execVars, wpc, wcount, histFile, appended, lockShared, rbuf, to_keep, listed, tailed>>

\* the exclusive lock is released when reader r drops its handle
Released(r) == IF lockExcl = Some(ReaderHandle(r)) THEN NoneOpt ELSE lockExcl

\* compact_if_needed without the second size check
CompactRead_NoRecheck(r) ==
    /\ rpc[r] = "compact_locked"
    /\ IF Len(CompactionEntries(histFile)) <= MAX_ENTRIES
       THEN /\ lockExcl' = Released(r)
            /\ rpc' = [rpc EXCEPT ![r] = "read_open"]
            /\ UNCHANGED to_keep
       ELSE /\ to_keep' = [to_keep EXCEPT ![r] =
                              LastEntries(CompactionEntries(histFile), MAX_ENTRIES)]
            /\ rpc' = [rpc EXCEPT ![r] = "compact_truncate"]
            /\ UNCHANGED lockExcl
    /\ UNCHANGED <<execVars, wpc, wcount, histFile, appended, lockShared, rbuf, listed, tailed>>

\* storage.rs 156-176: size re-checked under the lock, the entries read, and
\* the function returns (dropping the handle) unless more than MAX_ENTRIES
\* entries were read
CompactRead(r) ==
    /\ rpc[r] = "compact_locked"
    /\ LET entries == CompactionEntries(histFile)
       IN  IF \/ FileSize(histFile) < COMPACTION_THRESHOLD_BYTES
              \/ Len(entries) <= MAX_ENTRIES
           THEN /\ lockExcl' = Released(r)
                /\ rpc' = [rpc EXCEPT ![r] = "read_open"]
                /\ UNCHANGED to_keep
           ELSE /\ to_keep' = [to_keep EXCEPT ![r] = LastEntries(entries, MAX_ENTRIES)]
                /\ rpc' = [rpc EXCEPT ![r] = "compact_truncate"]
                /\ UNCHANGED lockExcl
    /\ UNCHANGED <<execVars, wpc, wcount, histFile, appended, lockShared, rbuf, listed, tailed>>

\* storage.rs 179: file.set_len(0)
CompactTruncate(r) ==
    /\ rpc[r] = "compact_truncate"
    /\ histFile' = <<>>
    /\ rpc' = [rpc EXCEPT ![r] = "compact_write"]
    /\ UNCHANGED <<execVars, writerVars, appended, lockShared, rbuf, to_keep, listed, tailed>>

\* storage.rs 187-199: seek to the start, write the kept entries, flush
CompactRewrite(r) ==
    /\ rpc[r] = "compact_write"
    /\ histFile' = WrittenLines(to_keep[r]) \o SubSeq(histFile, 2 * Len(to_keep[r]) + 1, Len(histFile))
    /\ rpc' = [rpc EXCEPT ![r] = "compact_written"]
    /\ UNCHANGED <<execVars, writerVars, appended, lockShared, rbuf, to_keep, listed, tailed>>

\* storage.rs 201: compact_if_needed returns, the handle is dropped
CompactDrop(r) ==
    /\ rpc[r] = "compact_written"
    /\ lockExcl' = Released(r)
    /\ to_keep' = [to_keep EXCEPT ![r] = <<>>]
    /\ rpc' = [rpc EXCEPT ![r] = "read_open"]
    /\ UNCHANGED <<execVars, wpc, wcount, histFile, appended, lockShared, rbuf, listed, tailed>>

\* storage.rs 113-114: read_all opens the file and takes the shared lock
ReadLock(r) ==
    /\ rpc[r] = "read_open"
    /\ SharedLockFree(lockExcl)
    /\ lockShared' = lockShared \cup {r}
    /\ rbuf' = [rbuf EXCEPT ![r] = <<>>]
    /\ rpc' = [rpc EXCEPT ![r] = "reading"]
    /\ UNCHANGED <<execVars, writerVars, histFile, appended, to_keep, listed, tailed>>

\* storage.rs 119: the BufReader reads what the file holds beyond its offset
ReadFill(r) ==
    /\ rpc[r] = "reading"
    /\ Len(rbuf[r]) < Len(histFile)
    /\ rbuf' = [rbuf EXCEPT ![r] = @ \o SubSeq(histFile, Len(@) + 1, Len(histFile))]
    /\ UNCHANGED <<execVars, writerVars, histFile, appended, lockShared, rpc, to_keep, listed, tailed>>

\* storage.rs 119-129: at end of file the lines read are parsed, the handle is
\* dropped and the entries returned
ReadReturn(r) ==
    /\ rpc[r] = "reading"
    /\ Len(rbuf[r]) >= Len(histFile)
    /\ listed' = [listed EXCEPT ![r] = read_all(rbuf[r])]
    /\ lockShared' = lockShared \ {r}
    /\ rpc' = [rpc EXCEPT ![r] = "done"]
    /\ UNCHANGED <<execVars, writerVars, histFile, appended, rbuf, to_keep, tailed>>

\* usize::saturating_sub
saturating_sub(a, b) == IF a >= b THEN a - b ELSE 0

\* tail without the saturation: skips n entries instead of len - n
tail_SkipN(entries, n) ==
    IF ~entries.ok THEN entries
    ELSE Ok(SubSeq(entries.v, n + 1, Len(entries.v)))

\* storage.rs 103-107: tail(n) keeps what follows the first len - n entries
\* of the list, and hands on the error when list failed
tail(entries, n) ==
    IF ~entries.ok THEN entries
    ELSE LET skip == saturating_sub(Len(entries.v), n)
         IN  Ok(SubSeq(entries.v, skip + 1, Len(entries.v)))

\* storage.rs 103-107: the list call was made by tail(n); list returns to it
\* and tail returns the last entries
TailReturn(r, n) ==
    /\ rpc[r] = "reading"
    /\ Len(rbuf[r]) >= Len(histFile)
    /\ listed' = [listed EXCEPT ![r] = read_all(rbuf[r])]
    /\ tailed' = [tailed EXCEPT ![r] = Some([n |-> n, entries |-> tail(read_all(rbuf[r]), n)])]
    /\ lockShared' = lockShared \ {r}
    /\ rpc' = [rpc EXCEPT ![r] = "done"]
    /\ UNCHANGED <<execVars, writerVars, histFile, appended, rbuf, to_keep>>

InitStore ==
    /\ parsed_file = <<>>
    /\ osEnv = <<>>
    /\ historyWritable = TRUE
    /\ context = <<>>
    /\ results = <<>>
    /\ index = 0
    /\ pc = "done"
    /\ cur = NoneOpt
    /\ sent = <<>>
    /\ inflight = {}
    /\ appends = <<>>
    /\ histFile = WrittenLines(EarlierEntries)
    /\ lockExcl = NoneOpt
    /\ wpc = [w \in Writers |-> "idle"]
    /\ wcount = [w \in Writers |-> CompletedBefore(w)]
    /\ appended = EarlierEntries
    /\ lockShared = {}
    /\ rpc = [r \in Readers |-> "idle"]
    /\ rbuf = [r \in Readers |-> <<>>]
    /\ to_keep = [r \in Readers |-> <<>>]
    /\ listed = [r \in Readers |-> NoneOpt]
    /\ tailed = [r \in Readers |-> NoneOpt]
    /\ source = NoneOpt
    /\ parse_result = NoneOpt
    /\ assertion = NoneOpt
    /\ evaluated = NoneOpt
    /\ res_template = <<>>
    /\ res_outputs = <<>>

NextStore ==
    \/ \E w \in Writers :
          \/ AppendOpen(w)
          \/ AppendLock(w)
          \/ AppendWriteJson(w)
          \/ AppendWriteNewline(w)
          \/ AppendDrop(w)
    \/ \E r \in Readers :
          \/ CompactCheck(r)
          \/ CompactLock(r)
          \/ CompactRead(r)
          \/ CompactTruncate(r)
          \/ CompactRewrite(r)
          \/ CompactDrop(r)
          \/ ReadLock(r)
          \/ ReadFill(r)
          \/ ReadReturn(r)

SpecStore == InitStore /\ [][NextStore]_vars

(* ------------------------------------------------------------------ *)
(* HistoryStorage::list on a file with arbitrary lines                 *)
(* ------------------------------------------------------------------ *)
MaxFileLines == 6

\* the entry record held by line i of the file
FileEntry(i) ==
    HistoryEntry(<<9, i>>, 5, [method |-> "GET", url |-> U_login, headers |-> <<>>,
                               body |-> NoneOpt],
                 [status |-> 200, headers |-> <<>>])

LineKinds == {"entry", "text", "bytes", "blank"}

\* line i of the file, with its terminator
FileLine(kind, i) ==
    CASE kind = "entry" -> <<JsonChunk(FileEntry(i)), NewlineChunk>>
      [] kind = "text" -> <<GarbageChunk, NewlineChunk>>
      [] kind = "bytes" -> <<InvalidUtf8Chunk, NewlineChunk>>
      [] kind = "blank" -> <<NewlineChunk>>

RECURSIVE FileOf(_, _)
FileOf(kinds, i) ==
    IF i > Len(kinds) THEN <<>> ELSE FileLine(kinds[i], i) \o FileOf(kinds, i + 1)

FileContents == {FileOf(kinds, 1) : kinds \in UNION {[1..n -> LineKinds] : n \in 0..MaxFileLines}}

InitRead ==
    /\ parsed_file = <<>>
    /\ osEnv = <<>>
    /\ historyWritable = TRUE
    /\ context = <<>>
    /\ results = <<>>
    /\ index = 0
    /\ pc = "done"
    /\ cur = NoneOpt
    /\ sent = <<>>
    /\ inflight = {}
    /\ appends = <<>>
    /\ histFile \in FileContents
    /\ lockExcl = NoneOpt
    /\ wpc = [w \in Writers |-> "idle"]
    /\ wcount = [w \in Writers |-> MAppends]
    /\ appended = <<>>
    /\ lockShared = {}
    /\ rpc = [r \in Readers |-> "idle"]
    /\ rbuf = [r \in Readers |-> <<>>]
    /\ to_keep = [r \in Readers |-> <<>>]
    /\ listed = [r \in Readers |-> NoneOpt]
    /\ tailed = [r \in Readers |-> NoneOpt]
    /\ source = NoneOpt
    /\ parse_result = NoneOpt
    /\ assertion = NoneOpt
    /\ evaluated = NoneOpt
    /\ res_template = <<>>
    /\ res_outputs = <<>>

NextRead ==
    \E r \in Readers :
        \/ CompactCheck(r)
        \/ CompactLock(r)
        \/ CompactRead(r)
        \/ CompactTruncate(r)
        \/ CompactRewrite(r)
        \/ CompactDrop(r)
        \/ ReadLock(r)
        \/ ReadFill(r)
        \/ ReadReturn(r)

SpecRead == InitRead /\ [][NextRead]_vars

(* ------------------------------------------------------------------ *)
(* Appends and compactions whose file operations may fail             *)

\* an append that returns its error with the handle left open
AppendFail_KeepsLock(w) ==
    /\ wpc[w] \in {"opened", "locked", "json"}
    /\ wcount' = [wcount EXCEPT ![w] = @ + 1]
    /\ wpc' = [wpc EXCEPT ![w] = "idle"]
    /\ UNCHANGED <<execVars, histFile, lockExcl, appended, readerVars>>

\* storage.rs 71 and 73: lock_exclusive, or one of the two writes of writeln!,
\* fails; `?` returns the error and the handle is dropped on the way out
AppendFail(w) ==
    /\ wpc[w] \in {"opened", "locked", "json"}
    /\ lockExcl' = IF lockExcl = Some(w) THEN NoneOpt ELSE lockExcl
    /\ wcount' = [wcount EXCEPT ![w] = @ + 1]
    /\ wpc' = [wpc EXCEPT ![w] = "idle"]
    /\ UNCHANGED <<execVars, histFile, appended, readerVars>>

\* storage.rs 150-199: lock_exclusive, metadata, set_len, seek, a write or
\* flush fails; compact_if_needed returns the error, the handle is dropped,
\* and list returns the error (storage.rs 89)
CompactFail(r) ==
    /\ rpc[r] \in {"compact_wait", "compact_locked", "compact_truncate", "compact_write"}
    /\ lockExcl' = Released(r)
    /\ to_keep' = [to_keep EXCEPT ![r] = <<>>]
    /\ listed' = [listed EXCEPT ![r] = Err("IoError")]
    /\ rpc' = [rpc EXCEPT ![r] = "done"]
    /\ UNCHANGED <<execVars, wpc, wcount, histFile, appended, lockShared, rbuf, tailed>>

InitFail == InitStore

NextFail ==
    \/ NextStore
    \/ \E w \in Writers : AppendFail(w)
    \/ \E r \in Readers : CompactFail(r)

SpecFail == InitFail /\ [][NextFail]_vars

(* ------------------------------------------------------------------ *)
(* One process calling list or tail(n) on a file with arbitrary lines  *)

\* largest n handed to tail
MaxTail == 4

InitTail ==
    /\ parsed_file = <<>>
    /\ osEnv = <<>>
    /\ historyWritable = TRUE
    /\ context = <<>>
    /\ results = <<>>
    /\ index = 0
    /\ pc = "done"
    /\ cur = NoneOpt
    /\ sent = <<>>
    /\ inflight = {}
    /\ appends = <<>>
    /\ histFile \in FileContents
    /\ lockExcl = NoneOpt
    /\ wpc = [w \in Writers |-> "idle"]
    /\ wcount = [w \in Writers |-> MAppends]
    /\ appended = <<>>
    /\ lockShared = {}
    /\ rpc = [r \in Readers |-> IF r = 1 THEN "idle" ELSE "done"]
    /\ rbuf = [r \in Readers |-> <<>>]
    /\ to_keep = [r \in Readers |-> <<>>]
    /\ listed = [r \in Readers |-> NoneOpt]
    /\ tailed = [r \in Readers |-> NoneOpt]
    /\ source = NoneOpt
    /\ parse_result = NoneOpt
    /\ assertion = NoneOpt
    /\ evaluated = NoneOpt
    /\ res_template = <<>>
    /\ res_outputs = <<>>

NextTail ==
    \/ NextRead
    \/ \E r \in Readers : \E n \in 0..MaxTail : TailReturn(r, n)

SpecTail == InitTail /\ [][NextTail]_vars

(* ------------------------------------------------------------------ *)
(* resolve applied to templates written from pieces                    *)

\* largest number of pieces of a template
MaxPieces == 2

\* calls of resolve on one template, each on the result of the one before
MaxResolves == 2

\* the pieces a template is written from: references and literal text
EnvRef(name) == [k |-> "env", s |-> name]
VarRef(name) == [k |-> "var", s |-> name]
Lit(s) == [k |-> "lit", s |-> s]

PieceText(p) ==
    CASE p.k = "env" -> <<"$", "{">> \o p.s \o <<"}">>
      [] p.k = "var" -> <<"{", "{">> \o p.s \o <<"}", "}">>
      [] p.k = "lit" -> p.s

RECURSIVE PiecesText(_)
PiecesText(ps) ==
    IF Len(ps) = 0 THEN <<>> ELSE PieceText(Head(ps)) \o PiecesText(Tail(ps))

PiecePool == {EnvRef(<<"A">>), EnvRef(<<"B">>), VarRef(<<"a">>), VarRef(<<"b">>),
              Lit(<<"x">>), Lit(<<" ">>), Lit(<<"{">>), Lit(<<"$">>)}

Templates == UNION {[1..n -> PiecePool] : n \in 0..MaxPieces}

\* values of the environment variables A and B, as pieces
EnvValues == {<<Lit(<<"v">>)>>, <<Lit(<<"w">>)>>, <<VarRef(<<"a">>)>>, <<EnvRef(<<"B">>)>>}

\* std::env: A and B set or unset; B, when set, is "w"
ResolveEnvs ==
    {[n \in names |-> IF n = <<"A">> THEN PiecesText(va) ELSE <<"w">>] :
        names \in SUBSET {<<"A">>, <<"B">>}, va \in EnvValues}

\* values of the session variables a and b
StoreValues == {<<"1">>, PiecesText(<<EnvRef(<<"A">>)>>), PiecesText(<<VarRef(<<"b">>)>>)}

ResolveStores ==
    {[n \in names |-> IF n = <<"a">> THEN va ELSE <<"2">>] :
        names \in SUBSET {<<"a">>, <<"b">>}, va \in StoreValues}

InitResolve ==
    /\ parsed_file = <<>>
    /\ osEnv \in ResolveEnvs
    /\ historyWritable = TRUE
    /\ context \in ResolveStores
    /\ results = <<>>
    /\ index = 0
    /\ pc = "done"
    /\ cur = NoneOpt
    /\ sent = <<>>
    /\ inflight = {}
    /\ appends = <<>>
    /\ histFile = <<>>
    /\ lockExcl = NoneOpt
    /\ wpc = [w \in Writers |-> "idle"]
    /\ wcount = [w \in Writers |-> MAppends]
    /\ appended = <<>>
    /\ lockShared = {}
    /\ rpc = [r \in Readers |-> "done"]
    /\ rbuf = [r \in Readers |-> <<>>]
    /\ to_keep = [r \in Readers |-> <<>>]
    /\ listed = [r \in Readers |-> NoneOpt]
    /\ tailed = [r \in Readers |-> NoneOpt]
    /\ source = NoneOpt
    /\ parse_result = NoneOpt
    /\ assertion = NoneOpt
    /\ evaluated = NoneOpt
    /\ res_template \in Templates
    /\ res_outputs = <<>>

\* executor.rs 172, resolver.rs 33-37: resolve called on the template, then on
\* what the call before returned
Resolve ==
    /\ Len(res_outputs) < MaxResolves
    /\ res_outputs' = Append(res_outputs,
                             resolve(IF Len(res_outputs) = 0 THEN PiecesText(res_template)
                                     ELSE res_outputs[Len(res_outputs)],
                                     osEnv, context))
    /\ UNCHANGED <<parsed_file, osEnv, historyWritable, context, results, index, pc, cur,
                   sent, inflight, appends, parserVars, evalVars, histFile, writerVars,
                   appended, readerVars, res_template>>

NextResolve == Resolve

SpecResolve == InitResolve /\ [][NextResolve]_vars

(* ------------------------------------------------------------------ *)
(* Properties                                                          *)
(* ------------------------------------------------------------------ *)

\* C1: once every append of every writer has returned Ok, the history file
\* holds exactly NWriters * MAppends lines, every line is one complete
\* parseable record, and the records are exactly the appended entries (none
\* lost, none merged with another).
C1_ConcurrentAppendsAtomic ==
    AllAppendsReturned =>
        LET lines == FileLines(histFile)
        IN  /\ Len(lines) = NWriters * MAppends
            /\ \A i \in 1..Len(lines) : LineParses(lines[i])
            /\ Len(read_all(histFile).v) = NWriters * MAppends
            /\ SeqToSet(read_all(histFile).v) = AllWriterEntries

\* all appends returned, and the lines of two writers alternate in the file
C1_Witness ==
    /\ AllAppendsReturned
    /\ \E i \in 1..(Len(read_all(histFile).v) - 2) :
          /\ read_all(histFile).v[i].id[1] # read_all(histFile).v[i + 1].id[1]
          /\ read_all(histFile).v[i + 1].id[1] # read_all(histFile).v[i + 2].id[1]


\* literal search-and-replace of every occurrence of pat in text
RECURSIVE ReplaceAll(_, _, _)
ReplaceAll(text, pat, v) ==
    IF Len(text) < Len(pat) THEN text
    ELSE IF OccursAt(text, pat, 1)
         THEN v \o ReplaceAll(SubSeq(text, Len(pat) + 1, Len(text)), pat, v)
         ELSE <<text[1]>> \o ReplaceAll(Tail(text), pat, v)

\* the text a response carries at body.t, if the body is an object with that key
BodyToken(response) ==
    IF response.body.j = "Object" /\ V_t \in DOMAIN response.body.o
    THEN LET value == response.body.o[V_t]
         IN  IF value.j = "String" THEN Some(value.s) ELSE Some(IntToStr(value.n))
    ELSE NoneOpt

\* request a of the document got a response and each of its capture
\* directives (t from body.t, u from body.u) finds its key in the body
TokenCapturedBy(a, response) ==
    LET captures == parsed_file[a].metadata.captures
    IN  /\ ~parsed_file[a].metadata.skip
        /\ captures # <<>>
        /\ response.body.j = "Object"
        /\ \A i \in 1..Len(captures) : captures[i].arg \in DOMAIN response.body.o
        /\ \E i \in 1..Len(captures) : captures[i] = C_token

\* requests whose capture step has already run and stored a value for t
Capturers ==
    {a \in 1..Len(results) :
        IsSome(results[a].response) /\ TokenCapturedBy(a, Unwrap(results[a].response))}
    \cup (IF pc = "assert" /\ TokenCapturedBy(Frame.request_number, Unwrap(Frame.response))
          THEN {Frame.request_number} ELSE {})

ResponseOf(a) ==
    IF a <= Len(results) THEN Unwrap(results[a].response) ELSE Unwrap(Frame.response)

\* C2: the store holds t -> the value of the latest request that captured it,
\* and every later request of the document is sent with each {{t}} of its
\* url, header values and body replaced by exactly that value.
C2_CaptureChaining ==
    /\ Capturers # {} =>
          /\ V_t \in DOMAIN context
          /\ Some(context[V_t]) = BodyToken(ResponseOf(Max(Capturers)))
    /\ \A b \in 1..Len(sent) :
          LET nb == sent[b].request_number
              before == {a \in Capturers : a < nb}
              template == parsed_file[nb]
              resolved == sent[b].parsed
          IN  before # {} =>
                LET v == Unwrap(BodyToken(ResponseOf(Max(before))))
                IN  /\ resolved.url = ReplaceAll(template.url, T_var, v)
                    /\ Len(resolved.headers) = Len(template.headers)
                    /\ \A i \in 1..Len(template.headers) :
                          resolved.headers[i] =
                             <<template.headers[i][1],
                               ReplaceAll(template.headers[i][2], T_var, v)>>
                    /\ IsSome(resolved.body) = IsSome(template.body)
                    /\ IsSome(template.body) =>
                          Unwrap(resolved.body) = ReplaceAll(Unwrap(template.body), T_var, v)

\* request 1 captured "ab" and request 2, templated with {{t}}, was sent with it
C2_Witness ==
    /\ Len(sent) = 2
    /\ 1 \in Capturers
    /\ sent[2].parsed.url = <<"h", "/", "a", "b">>
    /\ sent[2].parsed.headers = << <<<<"A">>, <<"a", "b">>>> >>
    /\ sent[2].parsed.body = Some(<<"a", "b">>)
    /\ context = (V_t :> <<"a", "b">>)


\* the literal the assertion parser reads from a captured text
TokenLiteral(response) ==
    LET value == response.body.o[V_t]
    IN  IF value.j = "String" THEN String(value.s) ELSE Number(value.n)

\* C3: a request that captures t and asserts `body.t == {{t}}` has that
\* assertion evaluated with {{t}} replaced by the value captured from its own
\* response, whatever t held before the request: the assertion compares
\* against the just-captured value and passes.
C3_CaptureBeforeAssertions ==
    \A k \in 1..Len(results) :
        (IsSome(results[k].response) /\ TokenCapturedBy(k, Unwrap(results[k].response))) =>
            LET response == Unwrap(results[k].response)
                texts == parsed_file[k].metadata.assertions
            IN  /\ Len(results[k].assertions) = Len(texts)
                /\ \A i \in 1..Len(texts) :
                      texts[i] = A_self =>
                         /\ results[k].assertions[i].passed
                         /\ results[k].assertions[i].expected =
                               <<"=", "=", " ">> \o AssertValueToStr(TokenLiteral(response))

\* t held "ab" from request 1 when request 2 captured 7 and asserted on it
C3_Witness ==
    /\ Len(results) = 2
    /\ parsed_file[2] = SpecLogin
    /\ 1 \in Capturers
    /\ IsSome(results[2].response)
    /\ BodyToken(Unwrap(results[1].response)) = Some(<<"a", "b">>)
    /\ BodyToken(Unwrap(results[2].response)) = Some(<<"7">>)
    /\ results[2].assertions[1].passed
    /\ results[2].assertions[1].expected = <<"=", "=", " ", "7">>


InRequest == pc \in {"await", "history", "capture", "assert"}

\* C4: requests are dispatched one at a time and in document order: at most
\* one request is in flight, the dispatched request numbers strictly increase,
\* and a request is resolved and dispatched only when every earlier spec of
\* the document already has its result (its response handling is over).
C4_SequentialInOrder ==
    /\ Cardinality(inflight) <= 1
    /\ \A i \in 1..Len(sent) : \A j \in 1..Len(sent) :
          i < j => sent[i].request_number < sent[j].request_number
    /\ \A b \in 1..Len(sent) :
          /\ sent[b].request_number <= Len(results) + 1
          /\ sent[b].request_number = Len(results) + 1 => InRequest \/ pc = "panicked"
    /\ InRequest =>
          /\ Frame.request_number = Len(results) + 1
          /\ Frame.request_number = index + 1
          /\ sent[Len(sent)].request_number = Frame.request_number
    /\ inflight = IF pc = "await" THEN {Frame.request_number} ELSE {}
    /\ index <= Len(parsed_file)

\* the second request of the document is in flight after the first completed
C4_Witness ==
    /\ pc = "await"
    /\ Len(sent) = 2
    /\ sent[1].request_number = 1
    /\ sent[2].request_number = 2
    /\ Len(results) = 1
    /\ IsSome(results[1].response)


\* execute_all has returned, or was unwound by a panic
Ended == pc \in {"done", "panicked"}

\* C5: execute_all ends with exactly one result per spec, in document order,
\* whatever fails on a spec (build, transport, capture, assertion): a failure
\* is recorded in the result of its spec and the following specs still run.
C5_OneResultPerSpec ==
    Ended =>
        /\ Len(results) = Len(parsed_file)
        /\ \A i \in 1..Len(results) : results[i].request_number = i

FailedAssertion(r) == \E i \in 1..Len(r.assertions) : ~r.assertions[i].passed

\* C6 as stated: a non-skipped result is failed exactly when the transport or
\* the build failed or one of its assertions failed.
C6_FailedIffTransportOrAssertion ==
    \A k \in 1..Len(results) :
        ~results[k].skipped =>
            (~results[k].success <=>
                (results[k].response = NoneOpt \/ FailedAssertion(results[k])))

\* C6 amended: a non-skipped result is failed exactly when the transport or
\* the build failed, or the response status is outside 200..299, or one of
\* its assertions failed.
C6_FailedIffTransportStatusOrAssertion ==
    \A k \in 1..Len(results) :
        ~results[k].skipped =>
            (~results[k].success <=>
                \/ results[k].response = NoneOpt
                \/ Unwrap(results[k].status) < 200
                \/ Unwrap(results[k].status) > 299
                \/ FailedAssertion(results[k]))

\* a 200 response whose assertion passed is successful, and a 404 response
\* without failed assertions is failed
C6_Witness ==
    /\ Len(results) = 2
    /\ results[1].status = Some(200)
    /\ Len(results[1].assertions) = 1
    /\ ~FailedAssertion(results[1])
    /\ results[1].success
    /\ results[2].status = Some(404)
    /\ ~FailedAssertion(results[2])
    /\ ~results[2].success

\* the step in which the awaited client call returns an error
TransportFailedStep == pc = "await" /\ pc' = "loop"

\* C7: when the transport call fails the request gets an Error-kind result
\* (not successful, error message, no response, no assertion results) and
\* nothing else happens: the store is unchanged, no history append is made
\* and the history file is unchanged.
C7_TransportFailureIsolated ==
    [][TransportFailedStep =>
          /\ Len(results') = Len(results) + 1
          /\ SubSeq(results', 1, Len(results)) = results
          /\ LET r == results'[Len(results')]
             IN  /\ r.request_number = Frame.request_number
                 /\ ~r.success
                 /\ ~r.skipped
                 /\ IsSome(r.error)
                 /\ r.response = NoneOpt
                 /\ r.status = NoneOpt
                 /\ r.assertions = <<>>
          /\ context' = context
          /\ appends' = appends
          /\ histFile' = histFile]_vars

\* a transport failure of request 2 after request 1 filled the store and the
\* history
C7_Witness ==
    /\ pc = "loop"
    /\ Len(results) = 2
    /\ results[2].error = Some("Request failed")
    /\ parsed_file[2].metadata.captures # <<>>
    /\ context = (V_t :> <<"a", "b">>)
    /\ Len(appends) = 1
    /\ Len(read_all(histFile).v) = 1

\* the loop step that consumes a spec carrying the skip flag
SkipStep ==
    /\ index < Len(parsed_file)
    /\ parsed_file[index + 1].metadata.skip
    /\ index' # index

\* C8: a spec with the skip flag gets a Skipped result built from the
\* unresolved spec, and nothing else changes: nothing is sent, no history
\* append is made, the store is unchanged, no capture or assertion runs.
C8_SkipHasNoEffect ==
    /\ [](\A k \in 1..Len(results) :
             parsed_file[k].metadata.skip =>
                /\ results[k].skipped
                /\ results[k].url = parsed_file[k].url
                /\ results[k].assertions = <<>>
                /\ results[k].response = NoneOpt
                /\ \A b \in 1..Len(sent) : sent[b].request_number # k
                /\ \A b \in 1..Len(appends) : appends[b].request_number # k)
    /\ [][SkipStep =>
             /\ results' = Append(results,
                     TestResult_skipped(index + 1, parsed_file[index + 1].metadata.name,
                                        "GET", parsed_file[index + 1].url))
             /\ context' = context
             /\ sent' = sent
             /\ inflight' = inflight
             /\ appends' = appends
             /\ histFile' = histFile
             /\ cur' = cur
             /\ pc' = pc]_vars

\* a skipped spec whose url holds {{t}} while the store has a value for t
C8_Witness ==
    /\ Len(results) = 2
    /\ results[2].skipped
    /\ results[2].url = U_use
    /\ context = (V_t :> <<"a", "b">>)
    /\ Len(sent) = 1
    /\ Len(appends) = 1

\* request numbers whose transport has returned a response so far
Responded ==
    {k \in 1..Len(results) : IsSome(results[k].response)}
    \cup (IF pc \in {"capture", "assert"} THEN {Frame.request_number} ELSE {})
    \cup (IF pc = "panicked" /\ IsSome(cur) /\ IsSome(Frame.response)
          THEN {Frame.request_number} ELSE {})

\* C9: the run calls append exactly once for each request whose transport
\* returned a response, in dispatch order, and for no other spec; with a
\* writable history file the entries of the file are those of the calls, in
\* the same order.
C9_OneAppendPerResponse ==
    /\ {appends[i].request_number : i \in 1..Len(appends)} = Responded
    /\ Len(appends) = Cardinality(Responded)
    /\ \A i \in 1..Len(appends) : \A j \in 1..Len(appends) :
          i < j => appends[i].request_number < appends[j].request_number
    /\ \A i \in 1..Len(appends) : appends[i].entry.id = <<0, appends[i].request_number>>
    /\ historyWritable =>
          read_all(histFile).v = [i \in 1..Len(appends) |-> appends[i].entry]
    /\ ~historyWritable => histFile = <<>>

\* a 404 response and a 200 response recorded, in order, a transport failure not
C9_Witness ==
    /\ historyWritable
    /\ pc = "done"
    /\ Len(results) = 2
    /\ results[1].status = Some(404)
    /\ results[2].status = Some(200)
    /\ Len(read_all(histFile).v) = 2
    /\ read_all(histFile).v[1].response.status = 404
    /\ read_all(histFile).v[2].response.status = 200

\* C10: a spec with @timeout whose endpoint takes longer than the timeout gets
\* an Error-kind result, so no result of such a spec carries a response that
\* took longer than the spec's timeout.
C10_PerRequestTimeoutAborts ==
    \A k \in 1..Len(results) :
        (IsSome(parsed_file[k].metadata.timeout) /\ IsSome(results[k].response)) =>
            Unwrap(results[k].response).duration <= Unwrap(parsed_file[k].metadata.timeout)


\* position of an entry in the order of the appends
AppendPos(e) == CHOOSE i \in 1..Len(appended) : appended[i] = e

\* every line a reader got is one whole record followed by its terminator
WholeLines(buf) ==
    /\ Len(buf) % 2 = 0
    /\ \A i \in 1..Len(buf) :
          IF i % 2 = 1 THEN buf[i].c = "json" ELSE buf[i] = NewlineChunk

\* C11: a list that runs next to appends and compactions reads whole lines
\* only (none partially written, none merged), every entry it returns is an
\* entry some append wrote, and the entries come in the order of the appends.
C11_ReadsSeeWholeLines ==
    \A r \in DOMAIN rpc :
        rpc[r] = "done" =>
            /\ WholeLines(rbuf[r])
            /\ listed[r].ok
            /\ \A i \in 1..Len(listed[r].v) : listed[r].v[i] \in SeqToSet(appended)
            /\ \A i \in 1..Len(listed[r].v) : \A j \in 1..Len(listed[r].v) :
                  i < j => AppendPos(listed[r].v[i]) < AppendPos(listed[r].v[j])

\* a reader returned the compacted file, ending with an entry appended during
\* its run, while the other writer is in the middle of its append
C11_Witness ==
    /\ rpc[1] = "done"
    /\ Len(listed[1].v) = MAX_ENTRIES
    /\ listed[1].v[MAX_ENTRIES] = WriterEntry(1, MAppends)
    /\ wpc[2] # "idle"
    /\ wcount[2] < MAppends


\* the blocks of an http document that fail to parse
FailingBlocks(content) ==
    {i \in 1..Len(split_by_separator(content)) :
        ~parse_request_block(split_by_separator(content)[i].block,
                             split_by_separator(content)[i].start_line).ok}

\* the http/rest code blocks of a Markdown document that fail to parse
FailingCodeBlocks(events) ==
    {i \in 1..Len(extract_code_blocks(events)) :
        ~parse_content(extract_code_blocks(events)[i].content).ok}

\* C12: parsing is all-or-nothing. When a block of an http document (or a
\* matching fenced block of a Markdown document) raises a parse error, the
\* parser returns the error of the first such block and no spec list, and the
\* run ends without a spec handed to the executor and without a request sent.
C12_ParseAllOrNothing ==
    IsSome(parse_result) =>
        LET r == Unwrap(parse_result)
            failing == IF source.kind = "md" THEN FailingCodeBlocks(source.content)
                       ELSE FailingBlocks(source.content)
        IN  /\ failing # {} =>
                  /\ ~r.ok
                  /\ r = IF source.kind = "md"
                         THEN parse_content(
                                 extract_code_blocks(source.content)[Min(failing)].content)
                         ELSE parse_request_block(
                                 split_by_separator(source.content)[Min(failing)].block,
                                 split_by_separator(source.content)[Min(failing)].start_line)
            /\ ~r.ok =>
                  /\ DOMAIN r = {"ok", "e"}
                  /\ r.e \in {"InvalidFormat", "InvalidMethod", "InvalidMetadata",
                              "MissingUrl", "NoRequests"}
                  /\ pc = "parse_failed"
                  /\ parsed_file = <<>>
                  /\ sent = <<>>
                  /\ results = <<>>
                  /\ appends = <<>>

\* the second block has an invalid method after a first block that parses
C12_Witness ==
    /\ source = [kind |-> "http", content |-> <<L_get, L_sep, L_badmethod>>]
    /\ parse_result = Some(Err("InvalidMethod"))
    /\ pc = "parse_failed"

\* the lines of a document cut at its ### lines: first and last line of each
\* delimited block
DelimitedBlocks(content) ==
    LET seps == {i \in 1..Len(content) : IsSeparator(content[i])}
        starts == {1} \cup {i + 1 : i \in seps}
        EndOf(a) == IF {i \in seps : i >= a} = {} THEN Len(content)
                    ELSE Min({i \in seps : i >= a}) - 1
    IN  {<<a, EndOf(a)>> : a \in starts}

\* a block with some non-whitespace text
NonEmptyBlock(content, b) == \E i \in b[1]..b[2] : Trim(content[i]) # <<>>

\* a block with a request line: a line that is not blank, a comment or metadata
RequestBlock(content, b) ==
    \E i \in b[1]..b[2] :
        /\ Trim(content[i]) # <<>>
        /\ ~is_comment(Trim(content[i]))
        /\ ~is_metadata(Trim(content[i]))

HttpParsed == IsSome(parse_result) /\ source.kind = "http" /\ Unwrap(parse_result).ok

\* C13 as stated: a document that parses gives as many specs as it has
\* non-empty ###-delimited blocks.
C13_SpecsEqualNonEmptyBlocks ==
    HttpParsed =>
        Len(Unwrap(parse_result).v)
            = Cardinality({b \in DelimitedBlocks(source.content) :
                              NonEmptyBlock(source.content, b)})

\* C13 amended: a document that parses gives one spec for each ###-delimited
\* block that holds a request line, in block order (the i-th spec starts in
\* the i-th such block); a document without ### line gives exactly one spec.
C13_SpecsEqualRequestBlocks ==
    HttpParsed =>
        LET requests == Unwrap(parse_result).v
            blocks == {b \in DelimitedBlocks(source.content) :
                          RequestBlock(source.content, b)}
        IN  /\ Len(requests) = Cardinality(blocks)
            /\ \A i \in 1..Len(requests) :
                  /\ \E b \in blocks :
                        /\ requests[i].line_number = b[1]
                        /\ Cardinality({c \in blocks : c[1] <= b[1]}) = i
            /\ (\A i \in 1..Len(source.content) : ~IsSeparator(source.content[i]))
                  => Len(requests) = 1

\* a comment-only block before the separator, a request after it: one spec
C13_Witness ==
    /\ HttpParsed
    /\ source.content = <<L_comment, L_sep, L_get>>
    /\ Len(Unwrap(parse_result).v) = 1
    /\ Unwrap(parse_result).v[1].line_number = 3


\* the assertion of the state was parsed to a comparison whose left value
\* could be extracted
Compared ==
    /\ IsSome(evaluated)
    /\ "panicked" \notin DOMAIN Unwrap(evaluated)
    /\ parse_assertion(Unwrap(assertion).text).ok
    /\ parse_assertion(Unwrap(assertion).text).v.kind = "Compare"
    /\ extract_value(Unwrap(assertion).response,
                     parse_assertion(Unwrap(assertion).text).v.left).ok

ComparedLeft ==
    extract_value(Unwrap(assertion).response,
                  parse_assertion(Unwrap(assertion).text).v.left).v
ComparedOp == parse_assertion(Unwrap(assertion).text).v.op
ComparedRight == parse_assertion(Unwrap(assertion).text).v.right

\* the table of the specification: "true", "false", "error" or "TypeMismatch"
Truth(b) == IF b THEN "true" ELSE "false"
CompareTable(a, op, b) ==
    IF a.t = "Number" /\ b.t = "Number"
    THEN IF op = <<"=", "=">> THEN Truth(a.n = b.n)
         ELSE IF op = <<"!", "=">> THEN Truth(a.n # b.n)
         ELSE IF op = <<">">> THEN Truth(a.n > b.n)
         ELSE IF op = <<"<">> THEN Truth(a.n < b.n)
         ELSE IF op = <<">", "=">> THEN Truth(a.n >= b.n)
         ELSE IF op = <<"<", "=">> THEN Truth(a.n <= b.n)
         ELSE "error"
    ELSE IF a.t = "String" /\ b.t = "String"
    THEN IF op = <<"=", "=">> THEN Truth(a.s = b.s)
         ELSE IF op = <<"!", "=">> THEN Truth(a.s # b.s)
         ELSE IF op = S_contains
         THEN Truth(\E i \in 1..(Len(a.s) + 1) : \E j \in (i - 1)..Len(a.s) :
                        SubSeq(a.s, i, j) = b.s)
         ELSE "error"
    ELSE IF a.t = "Bool" /\ b.t = "Bool"
    THEN IF op = <<"=", "=">> THEN Truth(a.b = b.b)
         ELSE IF op = <<"!", "=">> THEN Truth(a.b # b.b)
         ELSE "error"
    ELSE IF a.t = "Null" /\ b.t = "Null"
    THEN IF op = <<"=", "=">> THEN "true"
         ELSE IF op = <<"!", "=">> THEN "false"
         ELSE "error"
    ELSE IF a.t = "Null" \/ b.t = "Null"
    THEN IF op = <<"=", "=">> THEN "false"
         ELSE IF op = <<"!", "=">> THEN "true"
         ELSE "error"
    ELSE "TypeMismatch"

\* C14: the outcome of a comparison is the one the table gives for its left
\* type, operator and right type: passed for true, an ordinary failure for
\* false, an error result otherwise (TypeMismatch for two different non-null
\* types, whatever the operator).
C14_CompareFollowsTable ==
    Compared =>
        LET expected == CompareTable(ComparedLeft, ComparedOp, ComparedRight)
            result == Unwrap(evaluated)
        IN  /\ expected = "true" => result.passed /\ IsSome(result.actual)
            /\ expected = "false" => ~result.passed /\ IsSome(result.actual)
            /\ expected = "error" =>
                  /\ ~result.passed
                  /\ result.actual = NoneOpt
                  /\ result.message \in {"TypeMismatch", "InvalidOperator"}
            /\ expected = "TypeMismatch" =>
                  /\ ~result.passed
                  /\ result.actual = NoneOpt
                  /\ result.message = "TypeMismatch"

\* null compared with a string by != passes
C14_Witness ==
    /\ Compared
    /\ Unwrap(assertion).text = S_body_dot \o <<"z", " ", "!", "=", " ", "\"", "a", "b", "\"">>
    /\ Unwrap(evaluated).passed


\* C15: for a request whose transport returned a response every configured
\* assertion text yields exactly one AssertionResult, in configuration order,
\* with passed=false and a message when it cannot be parsed or evaluated; the
\* evaluation never ends in a process-level fault.
C15_OneResultPerAssertion ==
    /\ pc = "panicked" => ~(IsSome(cur) /\ IsSome(Frame.response))
    /\ \A k \in 1..Len(results) :
          IsSome(results[k].response) =>
              /\ Len(results[k].assertions) = Len(parsed_file[k].metadata.assertions)
              /\ \A i \in 1..Len(results[k].assertions) :
                    /\ results[k].assertions[i].passed \in BOOLEAN
                    /\ ~results[k].assertions[i].passed
                          => results[k].assertions[i].message # None

\* C17: a spec that has a body and an explicit Content-Type header is sent
\* with exactly that Content-Type value, whatever its body looks like.
C17_ExplicitContentTypeKept ==
    \A b \in 1..Len(sent) :
        LET parsed == sent[b].parsed
        IN  (IsSome(parsed.body) /\ IsSome(FindContentType(parsed.headers))) =>
                HeaderGet(sent[b].request.headers, S_content_type)
                    = FindContentType(parsed.headers)


\* the assertion of a SpecAssert state, parsed
ExistsEvaluated ==
    /\ IsSome(assertion)
    /\ IsSome(evaluated)
    /\ parse_assertion(Unwrap(assertion).text).ok
    /\ parse_assertion(Unwrap(assertion).text).v.kind = "Exists"
ExistsPath == parse_assertion(Unwrap(assertion).text).v.path

\* the path names something the response holds
PathPresent(response, path) ==
    CASE path.p = "Status" -> TRUE
      [] path.p = "ResponseTime" -> TRUE
      [] path.p = "Header" -> ToLower(path.name) \in DOMAIN response.headers
      [] path.p = "Body" -> /\ response.body # InvalidJson
                            /\ JsonWalk(response.body, path.segments) # JMissing

\* C16: an Exists assertion never gives an error result; a path missing from
\* the response gives passed=false with a message, a path present in the
\* response gives passed=true.
C16_ExistsFollowsPresence ==
    ExistsEvaluated =>
        LET result == Unwrap(evaluated)
        IN  /\ "passed" \in DOMAIN result
            /\ IsSome(result.actual)
            /\ result.passed = PathPresent(Unwrap(assertion).response, ExistsPath)
            /\ ~result.passed => result.message # None


\* C18: the variable store changes only in the capture step of a request that
\* got a response, and no step removes a key: the key set never shrinks.
C18_StoreOnlyGrowsInCaptureStep ==
    [][/\ context' # context =>
              /\ pc = "capture"
              /\ IsSome(cur)
              /\ IsSome(Frame.response)
       /\ DOMAIN context \subseteq DOMAIN context']_vars

\* a capture step has overwritten a key the store already held, and the run
\* has gone through the later steps of that request
C18_Witness ==
    /\ Len(results) = 2
    /\ IsSome(results[1].response)
    /\ IsSome(results[2].response)
    /\ parsed_file[1].metadata.captures # <<>>
    /\ parsed_file[2].metadata.captures # <<>>
    /\ DOMAIN context # {}


\* the request handed to the client for the spec of history append a
SentFor(a) == sent[CHOOSE b \in 1..Len(sent) : sent[b].request_number = a.request_number]

RECURSIVE WellFormedEntries(_)
WellFormedEntries(file) ==
    IF file = <<>> THEN <<>>
    ELSE IF file[1].c = "json" /\ (Len(file) = 1 \/ file[2] = NewlineChunk)
         THEN <<file[1].entry>> \o WellFormedEntries(Tail(file))
         ELSE WellFormedEntries(Tail(file))

\* C20: for any file content list returns Ok with exactly the entries of the
\* well-formed lines of the file it read, in file order; a line that is not
\* an entry record is skipped and never makes the read fail.
C20_ListSkipsMalformedLines ==
    \A r \in Readers :
        rpc[r] = "done" =>
            /\ listed[r].ok
            /\ listed[r].v = WellFormedEntries(rbuf[r])


\* C21: when compaction rewrites the file, what it keeps is exactly the
\* MAX_ENTRIES most recent valid entries of the file, oldest first, and the
\* rewritten file holds those entries and nothing else.
C21_RewriteKeepsMostRecent ==
    \A r \in Readers :
        /\ rpc[r] = "compact_truncate" =>
              to_keep[r] = LastEntries(WellFormedEntries(histFile), MAX_ENTRIES)
        /\ rpc[r] = "compact_written" => histFile = WrittenLines(to_keep[r])

\* C22: tail(n) returns the last min(n, len) entries of what list returned,
\* in the order of the list; tail(0) returns nothing and tail(n) with
\* n >= len returns the whole list.
C22_TailIsSuffixOfList ==
    \A r \in Readers :
        (IsSome(tailed[r]) /\ listed[r].ok) =>
            LET n == Unwrap(tailed[r]).n
                t == Unwrap(tailed[r]).entries
                len == Len(listed[r].v)
            IN  /\ t.ok
                /\ Len(t.v) = (IF n < len THEN n ELSE len)
                /\ \A i \in 1..Len(t.v) : t.v[i] = listed[r].v[len - Len(t.v) + i]
                /\ n = 0 => t.v = <<>>
                /\ n >= len => t.v = listed[r].v

\* tail(2) of a list of more than two entries returned its last two
C22_Witness ==
    \E r \in Readers :
        /\ IsSome(tailed[r])
        /\ Unwrap(tailed[r]).n = 2
        /\ listed[r].ok
        /\ Len(listed[r].v) = 3
        /\ Unwrap(tailed[r]).entries.v = SubSeq(listed[r].v, 2, 3)

\* value of an environment variable of the pool, as the pieces it is written from
EnvPieces(text) == CHOOSE ps \in EnvValues : PiecesText(ps) = text

\* phase 1 of the reference: each ${NAME} piece with NAME set becomes the value
RECURSIVE RefEnvPhase(_, _)
RefEnvPhase(ps, env) ==
    IF Len(ps) = 0 THEN <<>>
    ELSE (IF Head(ps).k = "env" /\ Head(ps).s \in DOMAIN env
          THEN EnvPieces(env[Head(ps).s]) ELSE <<Head(ps)>>)
         \o RefEnvPhase(Tail(ps), env)

\* phase 2 of the reference: each {{name}} piece with name in the store becomes
\* the stored text, every other piece stays as written
RECURSIVE RefVarPhase(_, _)
RefVarPhase(ps, store) ==
    IF Len(ps) = 0 THEN <<>>
    ELSE (IF Head(ps).k = "var" /\ Head(ps).s \in DOMAIN store
          THEN store[Head(ps).s] ELSE PieceText(Head(ps)))
         \o RefVarPhase(Tail(ps), store)

TwoPhaseReference(ps, env, store) == RefVarPhase(RefEnvPhase(ps, env), store)

\* one pass in which no inserted text is looked at again
RECURSIVE OnePassReference(_, _, _)
OnePassReference(ps, env, store) ==
    IF Len(ps) = 0 THEN <<>>
    ELSE (CASE Head(ps).k = "env" /\ Head(ps).s \in DOMAIN env -> env[Head(ps).s]
            [] Head(ps).k = "var" /\ Head(ps).s \in DOMAIN store -> store[Head(ps).s]
            [] OTHER -> PieceText(Head(ps)))
         \o OnePassReference(Tail(ps), env, store)

\* C23 as stated: resolve equals the two-phase reference, and no text inserted
\* by a substitution is scanned again.
C23_ResolveNeverRescans ==
    Len(res_outputs) >= 1 =>
        /\ res_outputs[1] = TwoPhaseReference(res_template, osEnv, context)
        /\ res_outputs[1] = OnePassReference(res_template, osEnv, context)

\* C23: resolve equals the two-phase reference: ${NAME} pieces with NAME set
\* are replaced first, then {{name}} pieces with name in the store; pieces
\* without a variable and other text stay verbatim; a stored value is
\* inserted literally, and an environment value is scanned by phase 2 only.
C23_ResolveIsTwoPhase ==
    Len(res_outputs) >= 1 =>
        res_outputs[1] = TwoPhaseReference(res_template, osEnv, context)

\* ${A}{{a}} with A = "v" and a = "${A}" resolved to v${A}
C23_Witness ==
    /\ res_template = <<EnvRef(<<"A">>), VarRef(<<"a">>)>>
    /\ <<"A">> \in DOMAIN osEnv
    /\ <<"a">> \in DOMAIN context
    /\ context[<<"a">>] = <<"$", "{", "A", "}">>
    /\ Len(res_outputs) >= 1
    /\ res_outputs[1] = osEnv[<<"A">>] \o <<"$", "{", "A", "}">>

\* text[i..j] is ${NAME} with NAME = [A-Z_][A-Z0-9_]*
IsEnvPlaceholder(text, i, j) ==
    /\ j >= i + 3
    /\ text[i] = "$" /\ text[i + 1] = "{" /\ text[j] = "}"
    /\ text[i + 2] \in Upper \cup {"_"}
    /\ \A m \in (i + 2)..(j - 1) : text[m] \in Upper \cup Digit \cup {"_"}

\* text[i..j] is {{name}} with name = [a-zA-Z_][a-zA-Z0-9_]*
IsVarPlaceholder(text, i, j) ==
    /\ j >= i + 4
    /\ text[i] = "{" /\ text[i + 1] = "{" /\ text[j - 1] = "}" /\ text[j] = "}"
    /\ text[i + 2] \in Lower \cup Upper \cup {"_"}
    /\ \A m \in (i + 2)..(j - 2) : text[m] \in Lower \cup Upper \cup Digit \cup {"_"}

HasPlaceholder(text) ==
    \E i \in 1..Len(text) : \E j \in i..Len(text) :
        IsEnvPlaceholder(text, i, j) \/ IsVarPlaceholder(text, i, j)

\* C24: when resolve(s) holds no placeholder, resolving it again returns it
\* unchanged; a text without placeholders is returned unchanged.
C24_ResolveIdempotent ==
    /\ (Len(res_outputs) >= 1 /\ ~HasPlaceholder(PiecesText(res_template))) =>
            res_outputs[1] = PiecesText(res_template)
    /\ (Len(res_outputs) >= 2 /\ ~HasPlaceholder(res_outputs[1])) =>
            res_outputs[2] = res_outputs[1]

\* a template with placeholders resolved to a text without any, and resolving
\* that text again changed nothing
C24_Witness ==
    /\ Len(res_outputs) >= 2
    /\ HasPlaceholder(PiecesText(res_template))
    /\ res_outputs[1] # PiecesText(res_template)
    /\ ~HasPlaceholder(res_outputs[1])
    /\ res_outputs[2] = res_outputs[1]

\* the text of a heading as a reader of the document sees it
RECURSIVE HeadingText(_)
HeadingText(inlines) ==
    IF Len(inlines) = 0 THEN <<>> ELSE Head(inlines).s \o HeadingText(Tail(inlines))

\* the text of the nearest heading before event i, if a heading precedes it
NearestHeading(events, i) ==
    LET before == {h \in 1..(i - 1) : events[h].md = "heading"}
    IN  IF before = {} THEN NoneOpt ELSE Some(HeadingText(events[Max(before)].inlines))

\* the specs of one block, an unnamed spec taking the given name
NamedBy(requests, name) ==
    [k \in 1..Len(requests) |->
        [requests[k] EXCEPT !.metadata.name = IF IsSome(@) THEN @ ELSE name]]

\* the specs of the http/rest blocks from event i on, named by the claim's rule
RECURSIVE NamedSpecsFrom(_, _)
NamedSpecsFrom(events, i) ==
    IF i > Len(events) THEN <<>>
    ELSE (IF /\ events[i].md = "fence"
             /\ ToLower(events[i].lang) \in {<<"h","t","t","p">>, <<"r","e","s","t">>}
          THEN NamedBy(parse_content(events[i].content).v, NearestHeading(events, i))
          ELSE <<>>)
         \o NamedSpecsFrom(events, i + 1)

\* C25: in a Markdown document each spec of an http/rest block is named by its
\* explicit @name, else by the text of the nearest heading before the block,
\* and has no name when there is neither.
C25_NameIsNearestHeading ==
    (IsSome(parse_result) /\ source.kind = "md" /\ Unwrap(parse_result).ok) =>
        Unwrap(parse_result).v = NamedSpecsFrom(source.content, 1)

\* the file before the step is the beginning of the file after it
FileKept == Len(histFile') >= Len(histFile) /\ SubSeq(histFile', 1, Len(histFile)) = histFile

\* C26: compaction is lazy and double-checked. A step of append never removes
\* anything from the file; the file loses content only in the truncation by
\* a reader that holds the exclusive lock and finds the file at or above the
\* threshold; a reader that takes the lock and finds the file below the
\* threshold leaves it as it is and goes on to read.
C26_CompactionStepDoubleChecked ==
    [][/\ wpc' # wpc => FileKept
       /\ ~FileKept =>
             \E r \in Readers :
                /\ rpc[r] = "compact_truncate" /\ rpc'[r] = "compact_write"
                /\ lockExcl = Some(ReaderHandle(r))
                /\ FileSize(histFile) >= COMPACTION_THRESHOLD_BYTES
       /\ \A r \in Readers :
             (rpc[r] = "compact_locked" /\ rpc'[r] # "compact_locked"
                /\ FileSize(histFile) < COMPACTION_THRESHOLD_BYTES) =>
                   /\ rpc'[r] = "read_open"
                   /\ histFile' = histFile
       /\ \A r \in Readers :
             (rpc[r] # "compact_write" /\ rpc'[r] = "compact_write") =>
                 rpc[r] = "compact_truncate"]_vars

\* a reader that saw the file above the threshold holds the lock and finds
\* it below: another reader compacted it in between
C26_Witness ==
    \E r \in Readers :
        /\ rpc[r] = "compact_locked"
        /\ FileSize(histFile) < COMPACTION_THRESHOLD_BYTES
        /\ read_all(histFile).v = LastEntries(appended, Len(read_all(histFile).v))
        /\ Len(appended) > Len(read_all(histFile).v)

\* positions inside append, and inside compact_if_needed, between taking the
\* exclusive lock and dropping the handle
InAppendSection(w) == wpc[w] \in {"locked", "json", "written"}
InCompactionSection(r) ==
    rpc[r] \in {"compact_locked", "compact_truncate", "compact_write", "compact_written"}

C28_FailedAppendStepInvisible ==
    [][/\ pc = "history" =>
             /\ pc' = "capture"
             /\ UNCHANGED <<context, results, index, cur, sent, inflight>>
       /\ (pc = "capture" /\ ~historyWritable) =>
             /\ pc' = "assert"
             /\ LET captured == capture_from_response(Unwrap(Frame.response).body,
                                                      Unwrap(Frame.response).headers,
                                                      Frame.parsed.metadata.captures)
                IN  (Frame.parsed.metadata.captures # <<>> /\ captured.ok) =>
                        \A name \in DOMAIN captured.v :
                            /\ name \in DOMAIN context'
                            /\ context'[name] = captured.v[name]
       /\ (pc = "assert" /\ ~historyWritable /\ pc' = "loop") =>
             /\ Len(results') = Len(results) + 1
             /\ results'[Len(results')].request_number = Frame.request_number
             /\ results'[Len(results')].response = Frame.response
             /\ results'[Len(results')].error = NoneOpt
             /\ Len(results'[Len(results')].assertions)
                   = Len(Frame.parsed.metadata.assertions)
       /\ (pc # "done" /\ pc' = "done") => Len(results) = Len(parsed_file)]_vars

\* both appends of a two-request run failed; the first request's capture is
\* in the store, its assertion was evaluated, and the second request ran
C28_Witness ==
    /\ ~historyWritable
    /\ pc = "done"
    /\ Len(results) = 2
    /\ Len(appends) = 2
    /\ ~appends[1].ok /\ ~appends[2].ok
    /\ V_t \in DOMAIN context
    /\ Len(results[1].assertions) = 1
    /\ IsSome(results[2].response)

\* the capture directives of the request in progress that fail on its response
FailingCaptures ==
    {i \in 1..Len(Frame.parsed.metadata.captures) :
        ~CaptureValue(Unwrap(Frame.response).body, Unwrap(Frame.response).headers,
                      Frame.parsed.metadata.captures[i]).ok}

\* C29: the captures of one request are applied all-or-nothing. When a
\* directive fails the capture step leaves the store as it was, also for the
\* directives before the failing one; when none fails every directive's name
\* is in the store afterwards; and the result of a request with a failing
\* capture carries no error and is failed only by its status or assertions.
C29_CaptureStepAllOrNothing ==
    [][/\ (pc = "capture" /\ FailingCaptures # {}) => context' = context
       /\ (pc = "capture" /\ FailingCaptures = {}) =>
             \A i \in 1..Len(Frame.parsed.metadata.captures) :
                 /\ Frame.parsed.metadata.captures[i].name \in DOMAIN context'
                 /\ Ok(context'[Frame.parsed.metadata.captures[i].name]) \in
                       {CaptureValue(Unwrap(Frame.response).body,
                                     Unwrap(Frame.response).headers,
                                     Frame.parsed.metadata.captures[j]) :
                           j \in 1..Len(Frame.parsed.metadata.captures)}
       /\ (pc = "assert" /\ pc' = "loop" /\ FailingCaptures # {}) =>
             /\ results'[Len(results')].error = NoneOpt
             /\ results'[Len(results')].success =
                   (/\ is_success(Unwrap(Frame.response).status)
                    /\ ~FailedAssertion(results'[Len(results')]))]_vars

\* the first request captured t and u from a 200 body that holds only t: the
\* store is empty and the result is successful
C29_Witness ==
    /\ Len(results) >= 1
    /\ Len(parsed_file) >= 1
    /\ parsed_file[1] = SpecPlain
    /\ results[1].status = Some(200)
    /\ results[1].success
    /\ index = 1
    /\ context = <<>>

\* a compaction is between its truncation and the end of its rewrite
Rewriting == \E r \in Readers : rpc[r] = "compact_write"

\* C30: an append concurrent with a compaction is not lost. No process is
\* inside append while another is inside the compaction section, and whenever
\* no rewrite is under way the file holds the most recently appended entries,
\* at least MAX_ENTRIES of them if that many were appended, in append order:
\* the retained entries followed by every entry appended since.
C30_AppendAfterCompaction ==
    /\ \A w \in Writers : \A r \in Readers :
           ~(InAppendSection(w) /\ InCompactionSection(r))
    /\ ~Rewriting =>
           /\ read_all(histFile).ok
           /\ read_all(histFile).v = LastEntries(appended, Len(read_all(histFile).v))
           /\ Len(read_all(histFile).v) >= Min({MAX_ENTRIES, Len(appended)})

\* every append has returned; a compaction dropped the oldest entries and an
\* append has landed after the MAX_ENTRIES entries it retained
C30_Witness ==
    /\ \A w \in Writers : wpc[w] = "idle" /\ wcount[w] = MAppends
    /\ ~Rewriting
    /\ Len(read_all(histFile).v) = MAX_ENTRIES + 1
    /\ Len(appended) > MAX_ENTRIES + 1
    /\ read_all(histFile).v[MAX_ENTRIES + 1] = appended[Len(appended)]

====
